---- MODULE Spec2Model ----
(***************************************************************************)
(* Retrieval-augmented multi-stage legal query orchestration:              *)
(*   - QueryCacheService        (core/cache_service.py)                     *)
(*   - ConversationMemoryService (agent/conversation_memory.py) and the     *)
(*     conversation cache embedded in agent/legal_agents.py                 *)
(*   - the LangGraph pipeline   (agent/graph_builder.py, workflow_nodes.py, *)
(*     agent/legal_agents.py)                                               *)
(*   - VectorManager.search_vectorstore (services/legal/rag)                *)
(*   - RAGService.process_legal_query   (core/rag_service.py)               *)
(*                                                                         *)
(* Text is a tuple of one-character strings.  Confidences and relevances   *)
(* are in hundredths (80 stands for 0.8).  Time is a count of half units:  *)
(* one whole unit stands for an hour, the odd half carries the sub-second  *)
(* part that datetime.isoformat() prints only when it is non-zero.          *)
(***************************************************************************)
EXTENDS Integers, Sequences, FiniteSets, TLC

VARIABLES
    now,                 \* datetime.now()
    cache,               \* query_cache.cache: dict in insertion order
    conversation_cache,  \* legal_agents.LegalAgentSystem.conversation_cache
    memory_service,      \* ConversationMemoryService.conversation_cache
    saved_log,           \* history: every exchange passed to a save, per store and session
    vectorstore,         \* VectorManager.vectorstore: None, or the index and whether it answers
    documents_db,        \* document_service.documents_db
    searched,            \* history: the first result of each search since the stores last changed
    pc,                  \* where the request in flight stands
    call,                \* the arguments and locals of the request in flight
    state,               \* AgentState of the pipeline run in flight
    trace,               \* collaborators and stages the request in flight has invoked, in order
    result,              \* what the request returned
    served,              \* number of requests started
    ret,                 \* the direct service call just made and what it returned
    checkpoints          \* MemorySaver: the last checkpoint of each graph thread

vars == <<now, cache, conversation_cache, memory_service, saved_log, vectorstore,
          documents_db, searched, pc, call, state, trace, result, served, ret,
          checkpoints>>

None == "None"

\* Optional[...]: a Python None is the empty tuple, a value is wrapped
Nothing == <<>>
Some(x) == <<x>>

(***************************************************************************)
(* Bounds of the model                                                     *)
(***************************************************************************)
max_size == 2     \* QueryCacheService(max_size=...): capacity, scaled down
ttl_hours == 1    \* QueryCacheService(ttl_hours=...): TTL, scaled down
MaxTime == 3      \* the clock stops after this many half units
MaxAccess == 3    \* access_count is not raised beyond this
max_history_per_session == 3  \* ConversationMemoryService(max_history_per_session=...), scaled down
MaxSaves == 5     \* exchanges saved to one session of one store
MaxQuestionLength == 12  \* should_cache_query: the longest question stored (500), scaled down

(***************************************************************************)
(* Text helpers: str.lower(), str.strip()                                  *)
(***************************************************************************)
LowerChar(c) ==
    CASE c = "A" -> "a"
      [] c = "B" -> "b"
      [] c = "C" -> "c"
      [] c = "D" -> "d"
      [] c = "E" -> "e"
      [] c = "F" -> "f"
      [] c = "G" -> "g"
      [] c = "H" -> "h"
      [] c = "I" -> "i"
      [] c = "J" -> "j"
      [] c = "K" -> "k"
      [] c = "L" -> "l"
      [] c = "M" -> "m"
      [] c = "N" -> "n"
      [] c = "O" -> "o"
      [] c = "P" -> "p"
      [] c = "Q" -> "q"
      [] c = "R" -> "r"
      [] c = "S" -> "s"
      [] c = "T" -> "t"
      [] c = "U" -> "u"
      [] c = "V" -> "v"
      [] c = "W" -> "w"
      [] c = "X" -> "x"
      [] c = "Y" -> "y"
      [] c = "Z" -> "z"
      [] c = "A'" -> "a'"
      [] c = "E'" -> "e'"
      [] c = "I'" -> "i'"
      [] c = "O'" -> "o'"
      [] c = "U'" -> "u'"
      [] c = "N~" -> "n~"
      [] OTHER -> c

Lower(s) == [i \in 1..Len(s) |-> LowerChar(s[i])]

RECURSIVE LStrip(_)
LStrip(s) ==
    IF s = <<>> THEN s
    ELSE IF Head(s) = " " THEN LStrip(Tail(s)) ELSE s

RECURSIVE RStrip(_)
RStrip(s) ==
    IF s = <<>> THEN s
    ELSE IF s[Len(s)] = " " THEN RStrip(SubSeq(s, 1, Len(s) - 1)) ELSE s

Strip(s) == RStrip(LStrip(s))

(***************************************************************************)
(* datetime.isoformat() / datetime.fromisoformat() / timedelta(hours=h)    *)
(* isoformat prints the whole part, and the fraction only when non-zero;   *)
(* the printed forms are compared as strings by min() in                   *)
(* _evict_least_used.                                                      *)
(***************************************************************************)
isoformat(t) == IF t % 2 = 0 THEN <<t \div 2>> ELSE <<t \div 2, t % 2>>

fromisoformat(s) == 2 * s[1] + (IF Len(s) > 1 THEN s[2] ELSE 0)

timedelta(hours) == 2 * hours

\* str.__lt__ on two printed datetimes: field by field, a proper prefix
\* is smaller
StrLess(a, b) ==
    \/ a[1] < b[1]
    \/ a[1] = b[1] /\ Len(a) < Len(b)
    \/ a[1] = b[1] /\ Len(a) > 1 /\ Len(b) > 1 /\ a[2] < b[2]

\* tuple comparison (access_count, last_accessed) < (access_count, last_accessed)
PairLess(e, f) ==
    \/ e.access_count < f.access_count
    \/ e.access_count = f.access_count /\ StrLess(e.last_accessed, f.last_accessed)

(***************************************************************************)
(* QueryCacheService                                                       *)
(***************************************************************************)
\* hashlib.md5(f"{normalized_question}|{context_hash}").hexdigest(): the
\* digest is modelled by the pair it is computed from (no collisions)
_generate_cache_key(question, context_hash) ==
    <<Strip(Lower(question)), context_hash>>

\* the TTL counted from the last hit
_is_expired_sliding(cache_entry) ==
    now > fromisoformat(cache_entry.last_accessed) + timedelta(ttl_hours)

\* the TTL left out
_is_expired_at_once(cache_entry) == now > fromisoformat(cache_entry.created_at)

_is_expired(cache_entry) ==
    now > fromisoformat(cache_entry.created_at) + timedelta(ttl_hours)

\* position of cache_key in the dict, 0 when absent
KeyIndex(c, cache_key) ==
    IF \E i \in 1..Len(c) : c[i].key = cache_key
    THEN CHOOSE i \in 1..Len(c) : c[i].key = cache_key
    ELSE 0

\* del d[k]
DelAt(c, i) == [j \in 1..(Len(c) - 1) |-> IF j < i THEN c[j] ELSE c[j + 1]]

\* d.setdefault(k, v): an existing key keeps its value
Put_keep_existing(c, e) ==
    IF KeyIndex(c, e.key) = 0 THEN Append(c, e) ELSE c

\* d[k] = v : an existing key keeps its place, a new key goes last
Put(c, e) ==
    IF KeyIndex(c, e.key) = 0 THEN Append(c, e)
    ELSE [c EXCEPT ![KeyIndex(c, e.key)] = e]

\* eviction of the oldest insertion
LeastUsedIndex_fifo(c) == 1

\* min(self.cache.keys(), key=...): the first minimal entry in dict order
LeastUsedIndex(c) ==
    CHOOSE i \in 1..Len(c) :
        /\ \A j \in 1..Len(c) : ~PairLess(c[j], c[i])
        /\ \A j \in 1..(i - 1) : PairLess(c[i], c[j])

_evict_least_used(c) ==
    IF c = <<>> THEN c ELSE DelAt(c, LeastUsedIndex(c))

\* the entries _evict_least_used removes
Evicted(c) ==
    IF c = <<>> THEN <<>> ELSE <<c[LeastUsedIndex(c)]>>

\* QueryCacheService.get: <<Optional response, the cache afterwards>>
CacheGet(c, question, context_hash) ==
    LET cache_key == _generate_cache_key(question, context_hash)
        i == KeyIndex(c, cache_key)
    IN  IF i = 0 THEN <<Nothing, c>>
        ELSE IF _is_expired(c[i]) THEN <<Nothing, DelAt(c, i)>>
        ELSE <<Some(c[i].response),
               [c EXCEPT ![i].last_accessed = isoformat(now),
                         ![i].access_count = @ + 1]>>

\* a set that evicts only once the capacity is exceeded
CacheSet_when_over(c, question, response, context_hash) ==
    LET cache_key == _generate_cache_key(question, context_hash)
        c1 == IF Len(c) > max_size THEN _evict_least_used(c) ELSE c
        cache_entry == [key |-> cache_key,
                        response |-> response,
                        created_at |-> isoformat(now),
                        last_accessed |-> isoformat(now),
                        access_count |-> 1]
    IN  Put(c1, cache_entry)

\* QueryCacheService.set: the cache afterwards
CacheSet(c, question, response, context_hash) ==
    LET cache_key == _generate_cache_key(question, context_hash)
        c1 == IF Len(c) >= max_size THEN _evict_least_used(c) ELSE c
        cache_entry == [key |-> cache_key,
                        response |-> response,
                        created_at |-> isoformat(now),
                        last_accessed |-> isoformat(now),
                        access_count |-> 1]
    IN  Put(c1, cache_entry)

\* QueryCacheService.clear_expired: <<number removed, the cache afterwards>>
CacheClearExpired(c) ==
    LET keep == SelectSeq(c, LAMBDA e : ~_is_expired(e))
    IN  <<Len(c) - Len(keep), keep>>

(***************************************************************************)
(* ConversationMemoryService, and the same three methods as they are       *)
(* embedded in legal_agents.LegalAgentSystem.  A store is a dict from      *)
(* session id to list; an absent key is a session outside the domain.      *)
(***************************************************************************)
\* list[-n:]
LastN(l, n) ==
    IF n = 0 \/ n >= Len(l) THEN l
    ELSE SubSeq(l, Len(l) - n + 1, Len(l))

\* list[:n]
FirstN(l, n) == IF n >= Len(l) THEN l ELSE SubSeq(l, 1, n)

\* dict with d[k] = v
DictPut(d, k, v) == [x \in (DOMAIN d) \cup {k} |-> IF x = k THEN v ELSE d[x]]

\* dict after del d[k]
DictDel(d, k) == [x \in (DOMAIN d) \ {k} |-> d[x]]

Exchange(question, answer, legal_area) ==
    [timestamp |-> isoformat(now),
     question |-> question,
     answer |-> answer,
     legal_area |-> legal_area]

\* a trim that keeps the oldest exchanges
save_conversation_exchange_keep_first(store, session_id, question, answer, legal_area) ==
    LET history == IF session_id \in DOMAIN store THEN store[session_id] ELSE <<>>
        appended == Append(history, Exchange(question, answer, legal_area))
    IN  DictPut(store, session_id, FirstN(appended, max_history_per_session))

\* ConversationMemoryService.save_conversation_exchange: the store afterwards
save_conversation_exchange(store, session_id, question, answer, legal_area) ==
    LET history == IF session_id \in DOMAIN store THEN store[session_id] ELSE <<>>
        appended == Append(history, Exchange(question, answer, legal_area))
    IN  DictPut(store, session_id,
                IF Len(appended) > max_history_per_session
                THEN LastN(appended, max_history_per_session)
                ELSE appended)

\* ConversationMemoryService.get_conversation_context: the exchanges it
\* renders, numbered from 1, or the new-conversation marker
NewConversation == <<[marker |-> "Nueva conversacion iniciada."]>>

get_conversation_context(store, session_id, max_history) ==
    IF session_id \notin DOMAIN store THEN NewConversation
    ELSE LET history == LastN(store[session_id], max_history)
         IN  [i \in 1..Len(history) |->
                 [n |-> i,
                  question |-> history[i].question,
                  answer |-> history[i].answer,
                  legal_area |-> history[i].legal_area]]

\* a clear that empties the history and keeps the session
clear_conversation_history_emptied(store, session_id) ==
    IF session_id \in DOMAIN store
    THEN <<TRUE, DictPut(store, session_id, <<>>)>>
    ELSE <<FALSE, store>>

\* ConversationMemoryService.clear_conversation_history: <<returned, store>>
clear_conversation_history(store, session_id) ==
    IF session_id \in DOMAIN store
    THEN <<TRUE, DictDel(store, session_id)>>
    ELSE <<FALSE, store>>

\* ConversationMemoryService.get_conversation_summary
get_conversation_summary(store, session_id) ==
    IF session_id \notin DOMAIN store
    THEN [exchanges |-> 0, topics |-> {}, last_activity |-> Nothing]
    ELSE LET history == store[session_id]
         IN  [exchanges |-> Len(history),
              topics |-> {history[i].legal_area : i \in 1..Len(history)},
              last_activity |-> IF history # <<>>
                                THEN Some(history[Len(history)].timestamp)
                                ELSE Nothing]

\* history variable: the log of saves of a session
LogSave(log, session_id, question, answer, legal_area) ==
    DictPut(log, session_id,
            Append(IF session_id \in DOMAIN log THEN log[session_id] ELSE <<>>,
                   Exchange(question, answer, legal_area)))

(***************************************************************************)
(* Sample inputs                                                           *)
(***************************************************************************)
\* questions: "", "  ", "iva", "contrato x", "Contrato x ", "que es iva?"
Q_empty == <<>>
Q_blank == <<" ", " ">>
Q_short == <<"i", "v", "a">>
Q_contrato == <<"c", "o", "n", "t", "r", "a", "t", "o", " ", "x">>
Q_Contrato == <<"C", "o", "n", "t", "r", "a", "t", "o", " ", "x", " ">>
Q_iva == <<"q", "u", "e", " ", "e", "s", " ", "i", "v", "a", "?">>

\* scripts/verify_rag_compatibility.py test_queries: "?'Co'mo constituyo una SAS?",
\* "?'Co'mo calcular prestaciones sociales?", "?'Co'mo presentar declaracio'n de renta?"
Q_sas ==
    <<"?'", "C", "o'", "m", "o", " ", "c", "o", "n", "s", "t", "i", "t", "u", "y", "o", " ",
    "u", "n", "a", " ", "S", "A", "S", "?">>
Q_prestaciones ==
    <<"?'", "C", "o'", "m", "o", " ", "c", "a", "l", "c", "u", "l", "a", "r", " ", "p", "r",
    "e", "s", "t", "a", "c", "i", "o", "n", "e", "s", " ", "s", "o", "c", "i", "a", "l",
    "e", "s", "?">>
Q_renta ==
    <<"?'", "C", "o'", "m", "o", " ", "p", "r", "e", "s", "e", "n", "t", "a", "r", " ", "d",
    "e", "c", "l", "a", "r", "a", "c", "i", "o'", "n", " ", "d", "e", " ", "r", "e", "n",
    "t", "a", "?">>

\* a question followed by n more words "de"
RECURSIVE Padded(_, _)
Padded(question, n) ==
    IF n = 0 THEN question ELSE Padded(question \o <<" ", "d", "e">>, n - 1)

\* "contrato x de": 13 characters, longer than MaxQuestionLength
Q_long == Padded(Q_contrato, 1)

UserIds == {"u1"}
GivenSessions == {<<"s1">>, <<"s2">>}
DocumentIds == {"d1", "d2"}

\* rag_service.py: md5("|".join([str(document_ids) or "", str(use_uploaded_docs),
\* user_id]))[:8]; the digest is modelled by the triple it is computed from
ContextHash(document_ids, use_uploaded_docs, user_id) ==
    <<IF document_ids # <<>> THEN document_ids ELSE <<>>, use_uploaded_docs, user_id>>

(***************************************************************************)
(* QueryProcessor.determine_query_category                                 *)
(* An accented letter is one character, written with a following mark      *)
(* ("o'" is o-acute, "n~" is n-tilde).  Scores are doubled: 2 for a whole  *)
(* word, 1 for a match inside a word.                                      *)
(***************************************************************************)
\* the category named "constitución" in the source
CategoryOrder == <<"constitucion", "laboral", "tributario", "contractual">>

category_keywords(category) ==
    CASE category = "constitucion" ->
           <<<<"c", "o", "n", "s", "t", "i", "t", "u", "i", "r">>,
             <<"e", "m", "p", "r", "e", "s", "a">>,
             <<"s", "o", "c", "i", "e", "d", "a", "d">>,
             <<"s", "a", "s">>,
             <<"l", "i", "m", "i", "t", "a", "d", "a">>,
             <<"l", "t", "d", "a">>,
             <<"c", "a'", "m", "a", "r", "a">>,
             <<"c", "o", "m", "e", "r", "c", "i", "o">>,
             <<"r", "e", "g", "i", "s", "t", "r", "o">>,
             <<"m", "e", "r", "c", "a", "n", "t", "i", "l">>,
             <<"s", "o", "c", "i", "o", "s">>,
             <<"a", "c", "c", "i", "o", "n", "i", "s", "t", "a", "s">>>>
      [] category = "laboral" ->
           <<<<"e", "m", "p", "l", "e", "a", "d", "o">>,
             <<"t", "r", "a", "b", "a", "j", "a", "d", "o", "r">>,
             <<"c", "o", "n", "t", "r", "a", "t", "o">>,
             <<"t", "r", "a", "b", "a", "j", "o">>,
             <<"s", "a", "l", "a", "r", "i", "o">>,
             <<"s", "u", "e", "l", "d", "o">>,
             <<"p", "r", "e", "s", "t", "a", "c", "i", "o", "n", "e", "s">>,
             <<"l", "i", "q", "u", "i", "d", "a", "c", "i", "o'", "n">>,
             <<"d", "e", "s", "p", "i", "d", "o">>,
             <<"v", "a", "c", "a", "c", "i", "o", "n", "e", "s">>,
             <<"i", "n", "c", "a", "p", "a", "c", "i", "d", "a", "d">>,
             <<"s", "e", "g", "u", "r", "i", "d", "a", "d">>,
             <<"s", "o", "c", "i", "a", "l">>,
             <<"e", "p", "s">>,
             <<"a", "f", "p">>,
             <<"a", "r", "l">>>>
      [] category = "tributario" ->
           <<<<"i", "m", "p", "u", "e", "s", "t", "o">>,
             <<"t", "r", "i", "b", "u", "t", "a", "r", "i", "o">>,
             <<"d", "i", "a", "n">>,
             <<"r", "e", "n", "t", "a">>,
             <<"i", "v", "a">>,
             <<"r", "e", "t", "e", "f", "u", "e", "n", "t", "e">>,
             <<"d", "e", "c", "l", "a", "r", "a", "c", "i", "o'", "n">>,
             <<"r", "e'", "g", "i", "m", "e", "n">>,
             <<"s", "i", "m", "p", "l", "e">>,
             <<"t", "r", "i", "b", "u", "t", "a", "c", "i", "o'", "n">>,
             <<"d", "e", "d", "u", "c", "c", "i", "o'", "n">>>>
      [] category = "contractual" ->
           <<<<"c", "o", "n", "t", "r", "a", "t", "o">>,
             <<"a", "c", "u", "e", "r", "d", "o">>,
             <<"c", "l", "a'", "u", "s", "u", "l", "a">>,
             <<"o", "b", "l", "i", "g", "a", "c", "i", "o'", "n">>,
             <<"d", "e", "r", "e", "c", "h", "o">>,
             <<"c", "o", "m", "e", "r", "c", "i", "a", "l">>,
             <<"c", "i", "v", "i", "l">>,
             <<"a", "r", "r", "e", "n", "d", "a", "m", "i", "e", "n", "t", "o">>,
             <<"c", "o", "m", "p", "r", "a", "v", "e", "n", "t", "a">>,
             <<"s", "e", "r", "v", "i", "c", "i", "o", "s">>>>

\* \w of the re module
IsWordChar(c) == c \notin {" ", "?", "?'", "!", "!'", ".", ",", ";", ":", "-"}

\* keyword in text
Contains(text, w) ==
    \E i \in 1..(Len(text) - Len(w) + 1) : SubSeq(text, i, i + Len(w) - 1) = w

\* re.search(r'\b' + keyword + r'\b', text), for a keyword made of word characters
ContainsWord(text, w) ==
    \E i \in 1..(Len(text) - Len(w) + 1) :
        /\ SubSeq(text, i, i + Len(w) - 1) = w
        /\ i = 1 \/ ~IsWordChar(text[i - 1])
        /\ i + Len(w) - 1 = Len(text) \/ ~IsWordChar(text[i + Len(w)])

RECURSIVE SumSeq(_)
SumSeq(l) == IF l = <<>> THEN 0 ELSE Head(l) + SumSeq(Tail(l))

CategoryScore(question_lower, category) ==
    LET kws == category_keywords(category)
    IN  SumSeq([i \in 1..Len(kws) |->
                   IF ContainsWord(question_lower, kws[i]) THEN 2
                   ELSE IF Contains(question_lower, kws[i]) THEN 1
                   ELSE 0])

\* a max that keeps the last of the categories with the highest score
determine_query_category_last_max(question) ==
    LET question_lower == Lower(question)
        score(i) == CategoryScore(question_lower, CategoryOrder[i])
        scored == {i \in 1..Len(CategoryOrder) : score(i) > 0}
    IN  IF scored = {} THEN "general"
        ELSE CategoryOrder[CHOOSE i \in scored :
                 /\ \A j \in scored : score(j) <= score(i)
                 /\ \A j \in scored : j > i => score(j) < score(i)]

\* max(category_scores.items(), key=...): the first category, in dict order,
\* that no other category beats
determine_query_category(question) ==
    LET question_lower == Lower(question)
        score(i) == CategoryScore(question_lower, CategoryOrder[i])
        scored == {i \in 1..Len(CategoryOrder) : score(i) > 0}
    IN  IF scored = {} THEN "general"
        ELSE CategoryOrder[CHOOSE i \in scored :
                 /\ \A j \in scored : score(j) <= score(i)
                 /\ \A j \in scored : j < i => score(j) < score(i)]

(***************************************************************************)
(* QueryProcessor.get_query_complexity                                     *)
(***************************************************************************)
\* the levels of complexity_indicators, in dict order
ComplexityLevels == <<"simple", "complex">>

complexity_indicators(level) ==
    CASE level = "simple" ->
           <<<<"q", "u", "e'", " ", "e", "s">>,
             <<"q", "u", "e", " ", "e", "s">>,
             <<"d", "e", "f", "i", "n", "i", "c", "i", "o'", "n">>,
             <<"s", "i", "g", "n", "i", "f", "i", "c", "a">>,
             <<"c", "u", "a'", "n", "t", "o">>,
             <<"c", "u", "a", "n", "t", "o">>,
             <<"c", "o", "s", "t", "o">>,
             <<"p", "r", "e", "c", "i", "o">>>>
      [] level = "complex" ->
           <<<<"c", "o'", "m", "o", " ", "h", "a", "c", "e", "r">>,
             <<"c", "o", "m", "o", " ", "h", "a", "c", "e", "r">>,
             <<"p", "r", "o", "c", "e", "d", "i", "m", "i", "e", "n", "t", "o">>,
             <<"p", "a", "s", "o", "s">>,
             <<"r", "e", "q", "u", "i", "s", "i", "t", "o", "s">>,
             <<"d", "o", "c", "u", "m", "e", "n", "t", "o", "s">>,
             <<"p", "r", "o", "c", "e", "s", "o", " ", "c", "o", "m", "p", "l", "e", "t", "o">>,
             <<"i", "m", "p", "l", "i", "c", "a", "c", "i", "o", "n", "e", "s">>,
             <<"c", "o", "n", "s", "e", "c", "u", "e", "n", "c", "i", "a", "s">>,
             <<"a", "l", "t", "e", "r", "n", "a", "t", "i", "v", "a", "s">>>>

\* len(question.split()): the maximal runs of non-blank characters
WordCount(question) ==
    Cardinality({i \in 1..Len(question) :
                    /\ question[i] # " "
                    /\ i = 1 \/ question[i - 1] = " "})

LengthComplexity(question) ==
    IF WordCount(question) <= 5 THEN "simple"
    ELSE IF WordCount(question) <= 15 THEN "medium"
    ELSE "complex"

\* the loop over complexity_indicators.items(): the first level that has an
\* indicator in the question and is "complex" or agrees with a "simple" length
get_query_complexity(question) ==
    LET question_lower == Lower(question)
        length_complexity == LengthComplexity(question)
        indicated(level) ==
            \E i \in 1..Len(complexity_indicators(level)) :
                Contains(question_lower, complexity_indicators(level)[i])
        returning == {n \in 1..Len(ComplexityLevels) :
                        /\ indicated(ComplexityLevels[n])
                        /\ \/ ComplexityLevels[n] = "complex"
                           \/ length_complexity = "simple"}
    IN  IF returning = {} THEN length_complexity
        ELSE ComplexityLevels[CHOOSE n \in returning : \A m \in returning : n <= m]

(***************************************************************************)
(* VectorManager.search_vectorstore                                        *)
(* vectorstore is Nothing when no index is configured, else                *)
(* Some([answers, results]): whether the index call returns, and the       *)
(* scored chunks it returns, best first.  A chunk is                       *)
(* [page_content, length, score, filename]; scores are in hundredths.      *)
(* documents_db is the set of stored document ids.  document_ids is a      *)
(* tuple of ids; None and [] are both the empty tuple (the code only tests *)
(* its truth).                                                             *)
(***************************************************************************)
query_configs(category) ==
    CASE category = "constitucion" -> [k |-> 15, threshold |-> 25]
      [] category = "laboral"      -> [k |-> 12, threshold |-> 30]
      [] category = "tributario"   -> [k |-> 15, threshold |-> 30]
      [] category = "contractual"  -> [k |-> 10, threshold |-> 25]
      [] OTHER                     -> [k |-> 10, threshold |-> 30]

FallbackContext == <<"Legislacion colombiana aplicable.">>

FallbackSource ==
    [title |-> "Legislacion Colombiana", content |-> <<"Documentos legales del sistema">>,
     relevance |-> 100, filename |-> "legislacion_colombiana",
     source |-> None, metadata_source |-> None]

NotFoundContext == <<"No se encontro informacion relevante en los documentos especificos subidos.">>

\* S3DocumentService defines no get_cached_document_text: the attribute
\* lookup raises for every document
get_cached_document_text(doc_id) == "AttributeError"

\* the source appended for an analyzed document: "source" is a top-level key,
\* its metadata holds file_size, text_length and content_type only
DirectSource(doc_id) ==
    [title |-> doc_id, content |-> <<doc_id>>, relevance |-> 90,
     filename |-> None, source |-> "direct_analysis", metadata_source |-> None]

\* one pass of the loop over document_ids: <<context parts, sources>>
AnalyzeDocument(db, doc_id, question) ==
    IF doc_id \notin db THEN <<<<>>, <<>>>>
    ELSE IF get_cached_document_text(doc_id) = "AttributeError" THEN <<<<>>, <<>>>>
    ELSE <<<<doc_id>>, <<DirectSource(doc_id)>>>>

RECURSIVE AnalyzeAll(_, _, _)
AnalyzeAll(db, document_ids, question) ==
    IF document_ids = <<>> THEN <<<<>>, <<>>>>
    ELSE LET one == AnalyzeDocument(db, Head(document_ids), question)
             rest == AnalyzeAll(db, Tail(document_ids), question)
         IN  <<one[1] \o rest[1], one[2] \o rest[2]>>

_analyze_documents_directly(db, document_ids, question) ==
    LET all == AnalyzeAll(db, document_ids, question)
    IN  IF all[1] # <<>> THEN [context |-> all[1], sources |-> all[2]]
        ELSE [context |-> NotFoundContext, sources |-> <<>>]

RECURSIVE RelevantChunks(_, _)
RelevantChunks(l, threshold) ==
    IF l = <<>> THEN <<>>
    ELSE LET score == Head(l).score
             similarity_score == IF score > 100 THEN 100 - score ELSE score
         IN  IF similarity_score >= threshold
             THEN <<[Head(l) EXCEPT !.score = similarity_score]>> \o RelevantChunks(Tail(l), threshold)
             ELSE RelevantChunks(Tail(l), threshold)

\* the scoped branch's join put in place of the general one: 8 chunks, 5000 characters
JoinContext_scoped(chunks) ==
    LET used == FirstN(chunks, 8)
        start(i) == SumSeq([j \in 1..(i - 1) |-> used[j].length + 1])
        total == SumSeq([i \in 1..Len(used) |-> used[i].length]) +
                 (IF Len(used) > 0 THEN Len(used) - 1 ELSE 0)
        kept == {i \in 1..Len(used) : total <= 5000 \/ start(i) < 5000}
    IN  [i \in 1..Cardinality(kept) |-> used[i].page_content] \o
        (IF total > 5000 THEN <<"...">> ELSE <<>>)

\* " ".join(relevant_chunks[:6]), cut at 3000 characters: the chunks that
\* begin before the cut, then the "..." when anything was cut off
JoinContext(chunks) ==
    LET used == FirstN(chunks, 6)
        \* the characters of the joined text that precede chunk i
        start(i) == SumSeq([j \in 1..(i - 1) |-> used[j].length + 1])
        total == SumSeq([i \in 1..Len(used) |-> used[i].length]) +
                 (IF Len(used) > 0 THEN Len(used) - 1 ELSE 0)
        kept == {i \in 1..Len(used) : total <= 3000 \/ start(i) < 3000}
    IN  [i \in 1..Cardinality(kept) |-> used[i].page_content] \o
        (IF total > 3000 THEN <<"...">> ELSE <<>>)

ChunkSource(chunk) ==
    [title |-> chunk.filename,
     content |-> IF chunk.length > 200 THEN <<chunk.page_content, "...">>
                 ELSE <<chunk.page_content>>,
     relevance |-> 100 - chunk.score,
     filename |-> chunk.filename, source |-> None, metadata_source |-> "system"]

\* the k of every vectorstore.similarity_search_with_score call a search makes,
\* in order: none when document_ids is given (the return at line 337 comes
\* first) or no index is configured
IndexCalls(vs, category, document_ids) ==
    IF Len(document_ids) > 0 THEN <<>>
    ELSE IF vs = Nothing THEN <<>>
    ELSE <<query_configs(category).k>>

\* whether a search calls _analyze_documents_directly
EntersDirectAnalysis(document_ids) == Len(document_ids) > 0

\* sources kept in a list that outlives the call
search_vectorstore_accumulating(vs, db, question, category, document_ids) ==
    LET fresh == IF Len(document_ids) > 0
                 THEN _analyze_documents_directly(db, document_ids, question)
                 ELSE IF vs = Nothing \/ ~vs[1].answers
                 THEN [context |-> FallbackContext, sources |-> <<FallbackSource>>]
                 ELSE LET config == query_configs(category)
                          chunks == RelevantChunks(FirstN(vs[1].results, config.k),
                                                   config.threshold)
                      IN  [context |-> JoinContext(chunks),
                           sources |-> [i \in 1..Len(chunks) |-> ChunkSource(chunks[i])]]
    IN  [fresh EXCEPT !.sources =
            FirstN((IF ret.op = "search" THEN ret.value.sources ELSE <<>>) \o @, 5)]

\* a search whose except clause answers as the scoped search does when it finds
\* nothing
search_vectorstore_not_found(vs, db, question, category, document_ids) ==
    IF Len(document_ids) > 0
    THEN _analyze_documents_directly(db, document_ids, question)
    ELSE IF vs = Nothing
    THEN [context |-> FallbackContext, sources |-> <<FallbackSource>>]
    ELSE IF ~vs[1].answers
    THEN [context |-> NotFoundContext, sources |-> <<>>]
    ELSE LET config == query_configs(category)
             results == FirstN(vs[1].results, config.k)
             relevant_chunks == RelevantChunks(results, config.threshold)
         IN  [context |-> JoinContext(relevant_chunks),
              sources |-> FirstN([i \in 1..Len(relevant_chunks) |->
                                     ChunkSource(relevant_chunks[i])], 5)]

search_vectorstore(vs, db, question, category, document_ids) ==
    IF Len(document_ids) > 0
    THEN _analyze_documents_directly(db, document_ids, question)
    ELSE IF vs = Nothing
    THEN [context |-> FallbackContext, sources |-> <<FallbackSource>>]
    ELSE IF ~vs[1].answers
    THEN [context |-> FallbackContext, sources |-> <<FallbackSource>>]
    ELSE LET config == query_configs(category)
             results == FirstN(vs[1].results, config.k)
             relevant_chunks == RelevantChunks(results, config.threshold)
         IN  [context |-> JoinContext(relevant_chunks),
              sources |-> FirstN([i \in 1..Len(relevant_chunks) |->
                                     ChunkSource(relevant_chunks[i])], 5)]

(***************************************************************************)
(* No request in flight                                                    *)
(***************************************************************************)
Idle ==
    /\ pc = "idle"
    /\ call = Nothing
    /\ state = Nothing
    /\ trace = <<>>
    /\ result = Nothing

NoCall == [op |-> "none"]

EmptyDict == [x \in {} |-> <<>>]

InitStores ==
    /\ now = 0
    /\ cache = <<>>
    /\ conversation_cache = EmptyDict
    /\ memory_service = EmptyDict
    /\ saved_log = [store \in {"legacy", "refactored"} |-> EmptyDict]
    /\ searched = EmptyDict
    /\ served = 0
    /\ ret = NoCall
    /\ checkpoints = EmptyDict

\* the clock advances
Tick ==
    /\ pc = "idle"
    /\ now < MaxTime
    /\ now' = now + 1
    /\ ret' = NoCall
    /\ UNCHANGED <<cache, conversation_cache, memory_service, saved_log, vectorstore,
                   documents_db, searched, pc, call, state, trace, result, served>>
    /\ UNCHANGED checkpoints

(***************************************************************************)
(* Direct calls of the QueryCacheService API                               *)
(***************************************************************************)
ApiCalls ==
    {<<Q_contrato, ContextHash(<<>>, TRUE, "u1")>>,
     <<Q_Contrato, ContextHash(<<>>, TRUE, "u1")>>,
     <<Q_iva, ContextHash(<<>>, TRUE, "u1")>>,
     <<Q_iva, ContextHash(<<"d1">>, TRUE, "u1")>>}
ApiResponses == {[answer |-> <<a>>, confidence |-> 80] : a \in {"r1", "r2"}}

ApiGet ==
    /\ pc = "idle"
    /\ \E a \in ApiCalls :
         LET got == CacheGet(cache, a[1], a[2])
             i == KeyIndex(cache, _generate_cache_key(a[1], a[2]))
         IN  /\ i # 0 /\ ~_is_expired(cache[i]) => cache[i].access_count < MaxAccess
             /\ cache' = got[2]
             /\ ret' = [op |-> "get", question |-> a[1], context_hash |-> a[2],
                        value |-> got[1],
                        hits |-> IF i # 0 THEN cache[i].access_count ELSE 0]
    /\ UNCHANGED <<now, conversation_cache, memory_service, saved_log, vectorstore,
                   documents_db, searched, pc, call, state, trace, result, served>>
    /\ UNCHANGED checkpoints

ApiSet ==
    /\ pc = "idle"
    /\ \E a \in ApiCalls, response \in ApiResponses :
         /\ cache' = CacheSet(cache, a[1], response, a[2])
         /\ ret' = [op |-> "set", question |-> a[1], context_hash |-> a[2],
                    evicted |-> IF Len(cache) >= max_size
                                THEN [i \in 1..Len(Evicted(cache)) |-> Evicted(cache)[i].key]
                                ELSE <<>>]
    /\ UNCHANGED <<now, conversation_cache, memory_service, saved_log, vectorstore,
                   documents_db, searched, pc, call, state, trace, result, served>>
    /\ UNCHANGED checkpoints

ApiClearExpired ==
    /\ pc = "idle"
    /\ cache' = CacheClearExpired(cache)[2]
    /\ ret' = [op |-> "clear_expired", value |-> CacheClearExpired(cache)[1]]
    /\ UNCHANGED <<now, conversation_cache, memory_service, saved_log, vectorstore,
                   documents_db, searched, pc, call, state, trace, result, served>>
    /\ UNCHANGED checkpoints

InitCache ==
    /\ InitStores
    /\ vectorstore = Nothing
    /\ documents_db = {}
    /\ Idle

NextCache == ApiGet \/ ApiSet \/ ApiClearExpired \/ Tick

SpecCache == InitCache /\ [][NextCache]_vars

(***************************************************************************)
(* Direct calls of the ConversationMemoryService API                       *)
(***************************************************************************)
MemQuestions == {Q_contrato, Q_iva}
MaxHistoryArgs == {0, 1, 2, 5}

ApiSave ==
    /\ pc = "idle"
    /\ \E session_id \in GivenSessions, question \in MemQuestions :
         /\ session_id \in DOMAIN saved_log.refactored
                => Len(saved_log.refactored[session_id]) < MaxSaves
         /\ memory_service' = save_conversation_exchange(
                memory_service, session_id, question, <<"answer">>, "civil")
         /\ saved_log' = [saved_log EXCEPT !.refactored =
                LogSave(@, session_id, question, <<"answer">>, "civil")]
         /\ ret' = [op |-> "save", session_id |-> session_id]
    /\ UNCHANGED <<now, cache, conversation_cache, vectorstore, documents_db, searched,
                   pc, call, state, trace, result, served>>
    /\ UNCHANGED checkpoints

ApiGetContext ==
    /\ pc = "idle"
    /\ \E session_id \in GivenSessions, max_history \in MaxHistoryArgs :
         ret' = [op |-> "get_context", session_id |-> session_id,
                 max_history |-> max_history,
                 value |-> get_conversation_context(memory_service, session_id, max_history)]
    /\ UNCHANGED <<now, cache, conversation_cache, memory_service, saved_log, vectorstore,
                   documents_db, searched, pc, call, state, trace, result, served>>
    /\ UNCHANGED checkpoints

ApiClearHistory ==
    /\ pc = "idle"
    /\ \E session_id \in GivenSessions :
         /\ memory_service' = clear_conversation_history(memory_service, session_id)[2]
         /\ saved_log' = [saved_log EXCEPT !.refactored =
                IF session_id \in DOMAIN @ THEN DictDel(@, session_id) ELSE @]
         /\ ret' = [op |-> "clear", session_id |-> session_id,
                    value |-> clear_conversation_history(memory_service, session_id)[1]]
    /\ UNCHANGED <<now, cache, conversation_cache, vectorstore, documents_db, searched,
                   pc, call, state, trace, result, served>>
    /\ UNCHANGED checkpoints

ApiGetSummary ==
    /\ pc = "idle"
    /\ \E session_id \in GivenSessions :
         ret' = [op |-> "summary", session_id |-> session_id,
                 value |-> get_conversation_summary(memory_service, session_id)]
    /\ UNCHANGED <<now, cache, conversation_cache, memory_service, saved_log, vectorstore,
                   documents_db, searched, pc, call, state, trace, result, served>>
    /\ UNCHANGED checkpoints

InitMemory == InitCache

NextMemory == ApiSave \/ ApiGetContext \/ ApiClearHistory \/ ApiGetSummary

SpecMemory == InitMemory /\ [][NextMemory]_vars

(***************************************************************************)
(* The agent pipeline.  "legacy" is agent/legal_agents.py, the system that  *)
(* rag_service imports; "refactored" is agent/legal_agent_system.py with   *)
(* workflow_nodes.py and graph_builder.py.  A completion of the language   *)
(* model is an input: the nodes below take it as the outcome o.            *)
(***************************************************************************)
Impls == {"legacy", "refactored"}

\* rag_service.py: from ..agent.legal_agents import legal_agent_system
RagAgentSystem == "legacy"

\* only the refactored system has the attribute memory_service
HasMemoryService(impl) == impl = "refactored"

\* the specialist nodes of the graph
SpecialistAreas(impl) ==
    IF impl = "legacy" THEN {"civil", "comercial", "laboral", "tributario"}
    ELSE {"civil", "comercial", "laboral", "tributario", "constitucional", "administrativo"}

NullValue == "<null>"      \* JSON null where a string is expected
Unhashable == "<array>"    \* a JSON array or object where a string is expected
NullAnswer == <<NullValue>>
NotANumber == 100000       \* a JSON string or null where a number is expected

Get(d, k, default) == IF k \in DOMAIN d THEN d[k] ELSE default

\* a conditional edge that sends an area without a specialist back to the
\* coordinator
_route_to_specialists_retry(impl, st) ==
    IF Get(st, "has_specific_documents", FALSE) THEN "document_analysis"
    ELSE LET area == Get(st, "legal_area", "")
             legal_area == IF area \in {"", NullValue} THEN "general" ELSE area
         IN  IF legal_area = Unhashable THEN "TypeError"
             ELSE IF legal_area \in SpecialistAreas(impl) THEN legal_area
             ELSE "coordinator"

\* dict.get(key) raises TypeError for a key that cannot be hashed
_route_to_specialists(impl, st) ==
    IF Get(st, "has_specific_documents", FALSE) THEN "document_analysis"
    ELSE LET area == Get(st, "legal_area", "")
             legal_area == IF area \in {"", NullValue} THEN "general" ELSE area
         IN  IF legal_area = Unhashable THEN "TypeError"
             ELSE IF legal_area \in SpecialistAreas(impl) THEN legal_area
             ELSE "civil"

HasSpecificDocs(sources) ==
    \E i \in 1..Len(sources) : sources[i].metadata_source = "user_upload"

_create_initial_state(question, context, sources, user_id, session_id) ==
    [question |-> Strip(question),
     context |-> IF context = <<>> THEN FallbackContext ELSE context,
     sources |-> IF sources = <<>> THEN <<FallbackSource>> ELSE sources,
     legal_area |-> "", complexity |-> "", responses |-> EmptyDict,
     final_answer |-> <<>>, confidence |-> 0, suggestions |-> "",
     coordination |-> "unset", evaluation |-> "unset",
     has_specific_documents |-> HasSpecificDocs(sources),
     session_id |-> session_id, user_id |-> user_id,
     written |-> <<>>]

\* history: node `by` has assigned the keys `keys` of the state, in this order;
\* a key is <<"final_answer">>, <<"confidence">> or <<"responses", stage>>
Wrote(st, by, keys) ==
    [st EXCEPT !.written = @ \o [i \in 1..Len(keys) |-> [key |-> keys[i], by |-> by]]]

AgentResponse(content, confidence, suggestions, error) ==
    [content |-> content, confidence |-> confidence, suggestions |-> suggestions,
     error |-> error]

CoordinatorFallback(st) ==
    [st EXCEPT !.legal_area = "civil", !.complexity = "medium", !.coordination = "fallback"]

\* o.kind: "raise" the call fails; "empty" blank content; "text" content that is
\* not JSON, o.legal_area being the first area it mentions; "json" an object
\* with legal_area and complexity; "json_bad" JSON without those keys
coordinator_node(impl, st, o) ==
    IF o.kind = "json"
    THEN [st EXCEPT !.legal_area = o.legal_area, !.complexity = o.complexity,
                    !.coordination = "json"]
    ELSE IF impl = "legacy" \/ o.kind \in {"raise", "json_bad"}
    THEN CoordinatorFallback(st)
    ELSE IF o.kind = "empty"
    THEN [st EXCEPT !.legal_area = "civil", !.complexity = "medium",
                    !.coordination = "default"]
    ELSE [st EXCEPT !.legal_area =
                        IF o.legal_area \in {"comercial", "laboral", "tributario"}
                        THEN o.legal_area ELSE "civil",
                    !.complexity = "medium", !.coordination = "text"]

DocumentErrorContent == <<"Error al analizar el documento especifico. Por favor, intenta nuevamente.">>

document_analysis_node(st, o) ==
    Wrote([st EXCEPT !.responses = DictPut(@, "document_analysis",
              IF o.kind = "raise"
              THEN AgentResponse(DocumentErrorContent, 10, "retry", TRUE)
              ELSE AgentResponse(o.content, 90, "document", FALSE))],
          "document_analysis", <<<<"responses", "document_analysis">>>>)

\* a specialist whose except clause stores nothing
_create_legal_area_node_silent(area_name, st, o) ==
    IF o.kind = "raise" THEN st
    ELSE Wrote([st EXCEPT !.responses = DictPut(@, area_name,
                   AgentResponse(o.content, 80, area_name, FALSE))],
               area_name, <<<<"responses", area_name>>>>)

_create_legal_area_node(area_name, st, o) ==
    Wrote([st EXCEPT !.responses = DictPut(@, area_name,
              IF o.kind = "raise"
              THEN AgentResponse(<<"Error procesando consulta ", area_name,
                                   ". Intenta nuevamente.">>, 10, "retry", TRUE)
              ELSE AgentResponse(o.content, 80, area_name, FALSE))],
          area_name, <<<<"responses", area_name>>>>)

\* sum(agent_confidences) / len(agent_confidences), 0.8 for no response
MeanConfidence(responses) ==
    LET RECURSIVE Sum(_)
        Sum(S) == IF S = {} THEN 0
                  ELSE LET x == CHOOSE y \in S : TRUE
                       IN  responses[x].confidence + Sum(S \ {x})
    IN  IF DOMAIN responses = {} THEN 80
        ELSE Sum(DOMAIN responses) \div Cardinality(DOMAIN responses)

EvaluatorApology == <<"Lo siento, no pude procesar tu consulta correctamente.">>
EvaluatorTechnical == <<"Lo siento, hubo un problema tecnico al procesar tu consulta.">>

\* the document answer joined with the text of the consolidation
DocumentPassthrough_joined(st) ==
    LET doc_analysis == st.responses["document_analysis"]
    IN  [st EXCEPT !.final_answer = doc_analysis.content \o <<"llm:", "evaluator">>,
                   !.confidence = doc_analysis.confidence,
                   !.suggestions = doc_analysis.suggestions,
                   !.evaluation = "document_analysis_only"]

\* state["final_answer"] = ...; state["confidence"] = ...
FinalWrites == <<<<"final_answer">>, <<"confidence">>>>

\* the except branch of both evaluators; it saves nothing
EvaluatorFallback(st) ==
    LET primary_area == st.legal_area
    IN  Wrote(IF primary_area \notin {"", NullValue} /\ primary_area \in DOMAIN st.responses
              THEN [st EXCEPT !.final_answer = st.responses[primary_area].content,
                              !.confidence = st.responses[primary_area].confidence,
                              !.suggestions = st.responses[primary_area].suggestions,
                              !.evaluation = "fallback"]
              ELSE [st EXCEPT !.final_answer = EvaluatorApology, !.confidence = 10,
                              !.suggestions = "rephrase", !.evaluation = "fallback"],
              "evaluator_fallback", FinalWrites)

UsesDocumentAnalysis(st) ==
    st.has_specific_documents /\ "document_analysis" \in DOMAIN st.responses

DocumentPassthrough(st) ==
    LET doc_analysis == st.responses["document_analysis"]
    IN  [st EXCEPT !.final_answer = doc_analysis.content,
                   !.confidence = doc_analysis.confidence,
                   !.suggestions = doc_analysis.suggestions,
                   !.evaluation = "document_analysis_only"]

\* o.kind: "raise"; "empty"; "text" content o.content that is not JSON; "json"
\* an object with final_answer and confidence, o.content being its raw text;
\* "json_partial" an object with final_answer and no confidence; "json_bad"
\* JSON without those keys.  Returns <<state, saved>>: saved holds the
\* legal_area of the exchange to save, or is Nothing.  In legal_agents.py
\* evaluation["confidence"] raises KeyError after final_answer was assigned
evaluator_node(impl, st, o) ==
    IF UsesDocumentAnalysis(st)
    THEN <<Wrote(DocumentPassthrough(st), "evaluator", FinalWrites),
           Some("document_analysis")>>
    ELSE IF o.kind = "raise"
    THEN <<EvaluatorFallback(st), Nothing>>
    ELSE IF impl = "legacy"
    THEN IF o.kind = "json"
         THEN <<Wrote([st EXCEPT !.final_answer = o.final_answer,
                                 !.confidence = o.confidence,
                                 !.suggestions = "evaluator", !.evaluation = "json"],
                      "evaluator", FinalWrites),
                Some(st.legal_area)>>
         ELSE IF o.kind = "json_partial"
         THEN <<EvaluatorFallback(Wrote([st EXCEPT !.final_answer = o.final_answer],
                                        "evaluator", <<<<"final_answer">>>>)),
                Nothing>>
         ELSE <<EvaluatorFallback(st), Nothing>>
    ELSE IF o.kind = "empty"
    THEN <<Wrote([st EXCEPT !.final_answer = EvaluatorTechnical, !.confidence = 50,
                            !.suggestions = "retry",
                            !.evaluation = "evaluator_direct_response"],
                 "evaluator", FinalWrites),
           Some(st.legal_area)>>
    ELSE <<Wrote([st EXCEPT !.final_answer = Strip(o.content),
                            !.confidence = MeanConfidence(st.responses),
                            !.suggestions = st.legal_area,
                            !.evaluation = "evaluator_direct_response"],
                 "evaluator", FinalWrites),
           Some(st.legal_area)>>

BlankQuestion(question) == Strip(question) = <<>>

AgentBlankResponse ==
    [answer |-> <<"Por favor, proporciona una pregunta valida.">>, confidence |-> 0,
     legal_area |-> "error", sources |-> <<>>, error |-> "empty_question"]

AgentErrorResponse ==
    [answer |-> <<"Lo siento, ocurrio un error procesando tu consulta.">>, confidence |-> 0,
     legal_area |-> "error", sources |-> <<>>, error |-> "exception"]

_format_final_response(st) ==
    [answer |-> st.final_answer, confidence |-> st.confidence,
     legal_area |-> st.legal_area, sources |-> st.sources, error |-> None]

(***************************************************************************)
(* RAGService.process_legal_query and the pipeline run as steps            *)
(***************************************************************************)
MaxRequests == 2   \* requests started in one behaviour

RagErrorResponse(user_id) ==
    [answer |-> <<"Lo siento, no pude procesar tu consulta en este momento.">>,
     confidence |-> 10, category |-> "error", sources |-> <<>>, legal_area |-> None,
     from_cache |-> FALSE, error |-> TRUE, metadata_error |-> FALSE, user_id |-> user_id]

\* the response dict of process_legal_query; legal_area is metadata.legal_area,
\* from_cache is metadata.get("from_cache", False), error is the top-level key,
\* metadata_error is "error" in metadata
RagResponse(c, agent_response) ==
    [answer |-> agent_response.answer, confidence |-> agent_response.confidence,
     category |-> c.category, sources |-> c.sources,
     legal_area |-> agent_response.legal_area, from_cache |-> FALSE, error |-> FALSE,
     metadata_error |-> FALSE, user_id |-> c.user_id]

\* should_cache_query without the test of the question's length
should_cache_query_any_length(question, response) ==
    /\ ~(response.confidence < 70)
    /\ ~response.metadata_error

should_cache_query(question, response) ==
    /\ ~(response.confidence < 70)
    /\ ~(Len(Strip(question)) < 10 \/ Len(Strip(question)) > MaxQuestionLength)
    /\ ~response.metadata_error

\* from the agent's answer to the return of process_legal_query: <<response, cache>>.
\* len(None) in _estimate_tokens and None < 0.7 in should_cache_query raise
\* TypeError, which the except clause turns into the error response
RagRespond(c, args, agent_response) ==
    IF agent_response.answer = NullAnswer \/ agent_response.confidence = NotANumber
    THEN <<RagErrorResponse(args.user_id), c>>
    ELSE LET response == RagResponse(args, agent_response)
         IN  IF should_cache_query(args.question, response)
             THEN <<response, CacheSet(c, args.question, response, args.context_hash)>>
             ELSE <<response, c>>

\* cached_response["metadata"]["from_cache"] = True writes into the dict the entry holds
MarkFromCache(c, cache_key) ==
    [i \in 1..Len(c) |->
        IF c[i].key = cache_key THEN [c[i] EXCEPT !.response.from_cache = TRUE] ELSE c[i]]

\* f"{user_id}_{datetime.now().strftime('%Y%m%d_%H%M%S')}"
GeneratedSession(user_id) == <<user_id, now \div 2>>

StoreOf(impl) == IF impl = "legacy" THEN conversation_cache ELSE memory_service

\* the request in flight returns agent_response from the agent system
Return(agent_response) ==
    LET args == call[1]
    IN  IF args.entry = "agent"
        THEN result' = Some(agent_response) /\ cache' = cache
        ELSE LET r == RagRespond(cache, args, agent_response)
             IN  result' = Some(r[1]) /\ cache' = r[2]

\* the conversation context read before the cache lookup
RagPath_memory_first(hit, impl, session_id, question) ==
    IF session_id # Nothing /\ ~HasMemoryService(impl) THEN "error"
    ELSE IF hit THEN "hit"
    ELSE IF BlankQuestion(question) THEN "blank"
    ELSE "run"

\* the order of the tests of process_legal_query: the cache lookup (56-62), the
\* conversation context of the session (66-67), and the blank check of the agent
\* system once classifier and retrieval have run
RagPath(hit, impl, session_id, question) ==
    IF hit THEN "hit"
    ELSE IF session_id # Nothing /\ ~HasMemoryService(impl) THEN "error"
    ELSE IF BlankQuestion(question) THEN "blank"
    ELSE "run"

RagQuestions == {Q_empty, Q_blank, Q_short, Q_contrato, Q_Contrato, Q_long}
RagSessions == {Nothing, Some(<<"s1">>)}
RagDocumentIds == {<<>>, <<"d1">>}

RagStart ==
    /\ pc = "idle"
    /\ served < MaxRequests
    /\ served' = served + 1
    /\ \E question \in RagQuestions, user_id \in UserIds, session_id \in RagSessions,
          document_ids \in RagDocumentIds, use_uploaded_docs \in {TRUE} :
         LET context_hash == ContextHash(document_ids, use_uploaded_docs, user_id)
             got == CacheGet(cache, question, context_hash)
             category == determine_query_category(question)
             found == search_vectorstore(vectorstore, documents_db, question, category,
                                         document_ids)
             sid == IF session_id # Nothing THEN session_id[1] ELSE GeneratedSession(user_id)
             args == [entry |-> "rag", impl |-> RagAgentSystem, question |-> question,
                      user_id |-> user_id, session_id |-> session_id,
                      document_ids |-> document_ids, context_hash |-> context_hash,
                      category |-> category, sources |-> found.sources]
             path == RagPath(got[1] # Nothing, RagAgentSystem, session_id, question)
         IN  /\ call' = Some(args)
             /\ IF path = "hit"
                THEN /\ cache' = MarkFromCache(got[2], _generate_cache_key(question, context_hash))
                     /\ result' = Some([got[1][1] EXCEPT !.from_cache = TRUE])
                     /\ trace' = <<"cache">>
                     /\ pc' = "returned"
                     /\ state' = state
                ELSE IF path = "error"
                THEN /\ cache' = got[2]
                     /\ result' = Some(RagErrorResponse(user_id))
                     /\ trace' = <<"cache">>
                     /\ pc' = "returned"
                     /\ state' = state
                ELSE IF path = "blank"
                THEN LET r == RagRespond(got[2], args, AgentBlankResponse)
                     IN  /\ cache' = r[2]
                         /\ result' = Some(r[1])
                         /\ trace' = <<"cache", "classifier", "search", "agent">>
                         /\ pc' = "returned"
                         /\ state' = state
                ELSE /\ cache' = got[2]
                     /\ result' = result
                     /\ trace' = <<"cache", "classifier", "search", "agent">>
                     /\ pc' = "coordinator"
                     /\ state' = Some(_create_initial_state(question, found.context,
                                                            found.sources, user_id, sid))
    /\ UNCHANGED <<now, conversation_cache, memory_service, saved_log, vectorstore,
                   documents_db, searched, ret>>
    /\ UNCHANGED checkpoints

\* sources a caller of the agent system may pass
UploadSource ==
    [title |-> "contrato.pdf", content |-> <<"u1">>, relevance |-> 40,
     filename |-> "contrato.pdf", source |-> None, metadata_source |-> "user_upload"]

SystemSource ==
    [title |-> "codigo_civil", content |-> <<"k1">>, relevance |-> 15,
     filename |-> "codigo_civil", source |-> None, metadata_source |-> "system"]

AgentQuestions == {Q_blank, Q_contrato}
AgentSources == {<<>>, <<SystemSource, UploadSource>>, <<DirectSource("d1")>>}

\* LegalAgentSystem.process_query called directly
AgentStart ==
    /\ pc = "idle"
    /\ served < MaxRequests
    /\ served' = served + 1
    /\ \E impl \in Impls, question \in AgentQuestions, sources \in AgentSources,
          user_id \in UserIds, session_id \in RagSessions :
         LET sid == IF session_id # Nothing THEN session_id[1] ELSE GeneratedSession(user_id)
             args == [entry |-> "agent", impl |-> impl, question |-> question,
                      user_id |-> user_id, session_id |-> session_id,
                      document_ids |-> <<>>, context_hash |-> <<>>,
                      category |-> None, sources |-> sources]
         IN  /\ call' = Some(args)
             /\ IF BlankQuestion(question)
                THEN /\ result' = Some(AgentBlankResponse)
                     /\ trace' = <<"agent">>
                     /\ pc' = "returned"
                     /\ state' = state
                ELSE /\ result' = result
                     /\ trace' = <<"agent">>
                     /\ pc' = "coordinator"
                     /\ state' = Some(_create_initial_state(question, <<"ctx">>, sources,
                                                            user_id, sid))
    /\ UNCHANGED <<now, cache, conversation_cache, memory_service, saved_log, vectorstore,
                   documents_db, searched, ret>>
    /\ UNCHANGED checkpoints

CoordinatorOutcomes ==
    {[kind |-> k, legal_area |-> None, complexity |-> None] : k \in {"raise", "empty", "json_bad"}}
    \cup {[kind |-> "text", legal_area |-> a, complexity |-> None] : a \in {"laboral", None}}
    \cup {[kind |-> "json", legal_area |-> a, complexity |-> "medium"] :
             a \in {"laboral", "constitucional", "", Unhashable}}

\* the coordinator node and the conditional edge that follows it; an exception
\* of the edge function ends the run in the except clause of process_query
CoordinatorNode ==
    /\ pc = "coordinator"
    /\ \E o \in CoordinatorOutcomes :
         LET st == coordinator_node(call[1].impl, state[1], o)
             next == _route_to_specialists(call[1].impl, st)
         IN  /\ state' = Some(st)
             /\ IF next = "TypeError"
                THEN /\ Return(AgentErrorResponse)
                     /\ trace' = trace \o <<"coordinator", "error">>
                     /\ pc' = "returned"
                ELSE /\ result' = result /\ cache' = cache
                     /\ trace' = Append(trace, "coordinator")
                     /\ pc' = next
    /\ UNCHANGED <<now, conversation_cache, memory_service, saved_log, vectorstore,
                   documents_db, searched, call, served, ret>>
    /\ UNCHANGED checkpoints

StageOutcomes(stage) ==
    {[kind |-> "raise", content |-> <<>>], [kind |-> "ok", content |-> <<"llm:", stage>>]}

SpecialistNode ==
    /\ pc \in SpecialistAreas("refactored")
    /\ \E o \in StageOutcomes(pc) :
         state' = Some(_create_legal_area_node(pc, state[1], o))
    /\ trace' = Append(trace, pc)
    /\ pc' = "evaluator"
    /\ UNCHANGED <<now, cache, conversation_cache, memory_service, saved_log, vectorstore,
                   documents_db, searched, call, result, served, ret>>
    /\ UNCHANGED checkpoints

DocumentAnalysisNode ==
    /\ pc = "document_analysis"
    /\ \E o \in StageOutcomes("document_analysis") :
         state' = Some(document_analysis_node(state[1], o))
    /\ trace' = Append(trace, "document_analysis")
    /\ pc' = "evaluator"
    /\ UNCHANGED <<now, cache, conversation_cache, memory_service, saved_log, vectorstore,
                   documents_db, searched, call, result, served, ret>>
    /\ UNCHANGED checkpoints

EvaluatorOutcomes ==
    {[kind |-> k, content |-> <<>>, final_answer |-> <<>>, confidence |-> 0] :
        k \in {"raise", "empty"}}
    \cup {[kind |-> "text", content |-> <<" ", "llm:", "evaluator">>, final_answer |-> <<>>,
           confidence |-> 0],
          [kind |-> "json_bad", content |-> <<"{}">>, final_answer |-> <<>>, confidence |-> 0],
          [kind |-> "json_partial", content |-> <<"{", "consolidated", "}">>,
           final_answer |-> <<"consolidated">>, confidence |-> 0],
          [kind |-> "json", content |-> <<"{", "null", "}">>, final_answer |-> NullAnswer,
           confidence |-> 85]}
    \cup {[kind |-> "json", content |-> <<"{", "consolidated", "}">>,
           final_answer |-> <<"consolidated">>, confidence |-> c] : c \in {85, 150, NotANumber}}

EvaluatorNode ==
    /\ pc = "evaluator"
    /\ \E o \in EvaluatorOutcomes :
         LET impl == call[1].impl
             r == evaluator_node(impl, state[1], o)
             st == r[1]
             store == save_conversation_exchange(StoreOf(impl), st.session_id, st.question,
                                                 st.final_answer, r[2][1])
         IN  /\ state' = Some(st)
             /\ IF r[2] = Nothing
                THEN UNCHANGED <<conversation_cache, memory_service, saved_log>>
                ELSE /\ conversation_cache' = IF impl = "legacy" THEN store
                                              ELSE conversation_cache
                     /\ memory_service' = IF impl = "legacy" THEN memory_service ELSE store
                     /\ saved_log' = [saved_log EXCEPT ![impl] =
                            LogSave(@, st.session_id, st.question, st.final_answer, r[2][1])]
    /\ trace' = Append(trace, "evaluator")
    /\ pc' = "end"
    /\ UNCHANGED <<now, cache, vectorstore, documents_db, searched, call, result, served, ret>>
    /\ UNCHANGED checkpoints

\* END of the graph: process_query formats the final state and returns
Finish ==
    /\ pc = "end"
    /\ Return(_format_final_response(state[1]))
    /\ trace' = Append(trace, "end")
    /\ pc' = "returned"
    /\ UNCHANGED <<now, conversation_cache, memory_service, saved_log, vectorstore,
                   documents_db, searched, call, state, served, ret>>
    /\ UNCHANGED checkpoints

\* the caller has the result; the next request may start
Ack ==
    /\ pc = "returned"
    /\ pc' = "idle"
    /\ call' = Nothing
    /\ state' = Nothing
    /\ trace' = <<>>
    /\ result' = Nothing
    /\ UNCHANGED <<now, cache, conversation_cache, memory_service, saved_log, vectorstore,
                   documents_db, searched, served, ret>>
    /\ UNCHANGED checkpoints

Chunk(page_content, length, score, filename) ==
    [page_content |-> page_content, length |-> length, score |-> score,
     filename |-> filename]

IndexA ==
    [answers |-> TRUE,
     results |-> <<Chunk("k1", 150, 85, "codigo_civil"), Chunk("k2", 250, 28, "estatuto"),
                   Chunk("k3", 100, 10, "codigo_civil")>>]

Init ==
    /\ InitStores
    /\ vectorstore \in {Nothing, Some(IndexA)}
    /\ documents_db = {"d1"}
    /\ Idle

\* process_legal_query end to end.  search_vectorstore marks no source
\* "user_upload", so these runs never enter document_analysis; SpecAgent does
Next ==
    \/ RagStart
    \/ CoordinatorNode
    \/ SpecialistNode
    \/ EvaluatorNode
    \/ Finish
    \/ Ack
    \/ Tick

Spec == Init /\ [][Next]_vars

\* both agent systems called directly
NextAgent ==
    \/ AgentStart
    \/ CoordinatorNode
    \/ SpecialistNode
    \/ DocumentAnalysisNode
    \/ EvaluatorNode
    \/ Finish
    \/ Ack
    \/ Tick

SpecAgent == Init /\ [][NextAgent]_vars

(***************************************************************************)
(* The routing function on its own: every state it may be given            *)
(***************************************************************************)
\* values the coordinator may leave in legal_area
RouteAreas ==
    {"civil", "comercial", "laboral", "tributario", "constitucional", "administrativo",
     "general", "multiple", "penal", "familia", "Civil", "", NullValue, Unhashable}

RouteStates ==
    {[legal_area |-> a, has_specific_documents |-> d] : a \in RouteAreas, d \in BOOLEAN}

InitRoute ==
    /\ InitStores
    /\ vectorstore = Nothing
    /\ documents_db = {}
    /\ pc = "route"
    /\ \E impl \in Impls : call = Some([entry |-> "route", impl |-> impl])
    /\ state \in {Some(st) : st \in RouteStates}
    /\ trace = <<>>
    /\ result = Nothing

Route ==
    /\ pc = "route"
    /\ pc' = _route_to_specialists(call[1].impl, state[1])
    /\ trace' = <<"route">>
    /\ UNCHANGED <<now, cache, conversation_cache, memory_service, saved_log, vectorstore,
                   documents_db, searched, call, state, result, served, ret>>
    /\ UNCHANGED checkpoints

NextRoute == Route

SpecRoute == InitRoute /\ [][NextRoute]_vars

(***************************************************************************)
(* search_vectorstore called repeatedly while the index and the document   *)
(* store change                                                            *)
(***************************************************************************)
IndexB ==
    [answers |-> TRUE,
     results |-> [i \in 1..7 |->
                    Chunk(<<"k1", "k2", "k3", "k4", "k5", "k6", "k7">>[i], 600, 90 - 5 * i,
                          "estatuto")]]

Indexes ==
    {Nothing, Some(IndexA), Some([IndexA EXCEPT !.answers = FALSE]), Some(IndexB)}

SearchArgs ==
    {<<q, c, d>> : q \in {Q_contrato}, c \in {"general", "contractual"},
                   d \in {<<>>, <<"d2", "d1">>}}

Search ==
    /\ \E a \in SearchArgs :
         LET value == search_vectorstore(vectorstore, documents_db, a[1], a[2], a[3])
         IN  /\ ret' = [op |-> "search", args |-> a, value |-> value,
                         index_calls |-> IndexCalls(vectorstore, a[2], a[3]),
                         direct |-> EntersDirectAnalysis(a[3])]
             /\ searched' = IF a \in DOMAIN searched
                            THEN [searched EXCEPT ![a].repeated = TRUE]
                            ELSE DictPut(searched, a, [value |-> value, repeated |-> FALSE])
    /\ UNCHANGED <<now, cache, conversation_cache, memory_service, saved_log, vectorstore,
                   documents_db, pc, call, state, trace, result, served>>
    /\ UNCHANGED checkpoints

\* S3DocumentService.upload_document: documents_db gains a document
UploadDocument ==
    /\ \E d \in DocumentIds \ documents_db : documents_db' = documents_db \cup {d}
    /\ searched' = EmptyDict
    /\ ret' = [op |-> "upload"]
    /\ UNCHANGED <<now, cache, conversation_cache, memory_service, saved_log, vectorstore,
                   pc, call, state, trace, result, served>>
    /\ UNCHANGED checkpoints

\* S3DocumentService.delete_document
DeleteDocument ==
    /\ \E d \in documents_db : documents_db' = documents_db \ {d}
    /\ searched' = EmptyDict
    /\ ret' = [op |-> "delete"]
    /\ UNCHANGED <<now, cache, conversation_cache, memory_service, saved_log, vectorstore,
                   pc, call, state, trace, result, served>>
    /\ UNCHANGED checkpoints

\* the index is connected, loses its connection, or its contents change
IndexChange ==
    /\ vectorstore' \in Indexes \ {vectorstore}
    /\ searched' = EmptyDict
    /\ ret' = [op |-> "index"]
    /\ UNCHANGED <<now, cache, conversation_cache, memory_service, saved_log, documents_db,
                   pc, call, state, trace, result, served>>
    /\ UNCHANGED checkpoints

InitSearch ==
    /\ InitStores
    /\ vectorstore = Nothing
    /\ documents_db = {}
    /\ Idle

NextSearch == Search \/ UploadDocument \/ DeleteDocument \/ IndexChange \/ Tick

SpecSearch == InitSearch /\ [][NextSearch]_vars

(***************************************************************************)
(* The Query Classifier applied to one question:                           *)
(* determine_query_category and get_query_complexity, as rag_service.py    *)
(* lines 79-80 call them                                                   *)
(***************************************************************************)
ClassifyWords ==
    {<<"s", "a", "s">>,
     <<"c", "o", "n", "t", "r", "a", "t", "o">>,
     <<"i", "v", "a">>,
     <<"p", "a", "s", "o", "s">>,
     <<"c", "o", "s", "t", "o">>,
     <<"s", "o", "c", "i", "e", "d", "a", "d", "e", "s">>,
     <<"a", "c", "u", "e", "r", "d", "o">>}

\* one or two words, alone (at most 5 words), with 4 more (6 to 15) or 15 more (over 15)
ClassifyPads == {0, 4, 15}

ClassifyQuestions ==
    {Q_sas, Q_prestaciones, Q_renta}
    \cup {Padded(w, n) : w \in ClassifyWords, n \in ClassifyPads}
    \cup {Padded(v \o <<" ">> \o w, n) : v \in ClassifyWords, w \in ClassifyWords,
                                         n \in ClassifyPads}

classify(question) ==
    [category |-> determine_query_category(question),
     complexity |-> get_query_complexity(question)]

InitClassify ==
    /\ InitStores
    /\ vectorstore = Nothing
    /\ documents_db = {}
    /\ pc = "idle"
    /\ \E q \in ClassifyQuestions : call = Some([entry |-> "classify", question |-> q])
    /\ state = Nothing
    /\ trace = <<>>
    /\ result = Nothing

Classify ==
    /\ pc = "idle"
    /\ call # Nothing
    /\ call[1].entry = "classify"
    /\ result' = Some(classify(call[1].question))
    /\ pc' = "returned"
    /\ UNCHANGED <<now, cache, conversation_cache, memory_service, saved_log, vectorstore,
                   documents_db, searched, call, state, trace, served, ret>>
    /\ UNCHANGED checkpoints

NextClassify == Classify

SpecClassify == InitClassify /\ [][NextClassify]_vars

(***************************************************************************)
(* VectorManager._extract_relevant_parts: the paragraphs of a document's   *)
(* text that direct analysis hands to the context.  A text is a tuple of   *)
(* characters; "\n" is the line feed.                                      *)
(***************************************************************************)
\* text.split('\n\n'): cut at each blank line, leftmost first
RECURSIVE SplitBlankLines(_)
SplitBlankLines(text) ==
    LET cuts == {i \in 1..(Len(text) - 1) : text[i] = "\n" /\ text[i + 1] = "\n"}
    IN  IF cuts = {} THEN <<text>>
        ELSE LET i == CHOOSE c \in cuts : \A d \in cuts : c <= d
             IN  <<SubSeq(text, 1, i - 1)>> \o SplitBlankLines(SubSeq(text, i + 2, Len(text)))

\* p.strip(): blanks and line feeds off both ends
RECURSIVE StripWhitespace(_)
StripWhitespace(p) ==
    IF p = <<>> THEN p
    ELSE IF Head(p) \in {" ", "\n"} THEN StripWhitespace(Tail(p))
    ELSE IF p[Len(p)] \in {" ", "\n"} THEN StripWhitespace(SubSeq(p, 1, Len(p) - 1))
    ELSE p

\* set(re.findall(r'\w+', s)): the maximal runs of word characters
FindallWords(s) ==
    {SubSeq(s, ij[1], ij[2]) : ij \in
        {ij \in (1..Len(s)) \X (1..Len(s)) :
            /\ ij[1] <= ij[2]
            /\ \A k \in ij[1]..ij[2] : IsWordChar(s[k])
            /\ ij[1] = 1 \/ ~IsWordChar(s[ij[1] - 1])
            /\ ij[2] = Len(s) \/ ~IsWordChar(s[ij[2] + 1])}}

\* the paragraphs of the text, stripped, before any is discarded
StrippedParagraphs(text) ==
    LET parts == SplitBlankLines(text)
    IN  [i \in DOMAIN parts |-> StripWhitespace(parts[i])]

_extract_relevant_parts(text, question) ==
    LET question_words == {word \in FindallWords(Lower(question)) : Len(word) > 3}
        LongEnough(p) == Len(p) > 50
        paragraphs == SelectSeq(StrippedParagraphs(text), LongEnough)
        matches(p) == Cardinality({word \in question_words : Contains(Lower(p), word)})
        Relevant(p) == \/ matches(p) >= 2
                       \/ Cardinality(question_words) <= 2 /\ matches(p) >= 1
        \* the loop stops once five paragraphs are taken
        relevant_parts == FirstN(SelectSeq(paragraphs, Relevant), 5)
    IN  IF relevant_parts = <<>> THEN FirstN(paragraphs, 3) ELSE relevant_parts

(***************************************************************************)
(* _extract_relevant_parts applied to one text and one question, as        *)
(* _analyze_documents_directly calls it at line 185                        *)
(***************************************************************************)
MaxParagraphs == 2   \* paragraphs of a text drawn freely

\* one, two or three words longer than 3 characters
ExtractQuestions ==
    {Q_contrato,
     <<"c", "o", "n", "t", "r", "a", "t", "o", " ", "a", "r", "r", "i", "e", "n", "d", "o">>,
     <<"c", "o", "n", "t", "r", "a", "t", "o", " ", "a", "r", "r", "i", "e", "n", "d", "o",
       " ", "p", "a", "g", "o", "s">>}

\* what a paragraph says: none, one or two of the questions' words
ParagraphBodies ==
    {<<"n", "a", "d", "a">>,
     <<"c", "o", "n", "t", "r", "a", "t", "o">>,
     <<"c", "o", "n", "t", "r", "a", "t", "o", " ", "a", "r", "r", "i", "e", "n", "d", "o">>}

\* just under, at and just over the 50 characters
ParagraphLengths == {49, 50, 51}

\* a body filled with full stops up to n characters
Filled(body, n) == body \o [i \in 1..(n - Len(body)) |-> "."]

RECURSIVE JoinBlankLines(_)
JoinBlankLines(paragraphs) ==
    IF Len(paragraphs) = 1 THEN paragraphs[1]
    ELSE paragraphs[1] \o <<"\n", "\n">> \o JoinBlankLines(Tail(paragraphs))

Repeated(p, n) == [i \in 1..n |-> p]

ExtractTexts ==
    LET kinds == {Filled(b, n) : b \in ParagraphBodies, n \in ParagraphLengths}
        two == <<"c", "o", "n", "t", "r", "a", "t", "o", " ", "a", "r", "r", "i", "e", "n", "d", "o">>
    IN  {JoinBlankLines(ps) : ps \in UNION {[1..n -> kinds] : n \in 1..MaxParagraphs}}
        \cup {JoinBlankLines(Repeated(Filled(two, 51), 7)),
              JoinBlankLines(Repeated(Filled(<<"n", "a", "d", "a">>, 51), 4)),
              Filled(two, 51) \o <<"\n", "\n", "\n", " ">> \o Filled(two, 51)}

InitExtract ==
    /\ InitStores
    /\ vectorstore = Nothing
    /\ documents_db = {}
    /\ pc = "idle"
    /\ \E text \in ExtractTexts, q \in ExtractQuestions :
          call = Some([entry |-> "extract", text |-> text, question |-> q])
    /\ state = Nothing
    /\ trace = <<>>
    /\ result = Nothing

Extract ==
    /\ pc = "idle"
    /\ call # Nothing
    /\ call[1].entry = "extract"
    /\ result' = Some(_extract_relevant_parts(call[1].text, call[1].question))
    /\ pc' = "returned"
    /\ UNCHANGED <<now, cache, conversation_cache, memory_service, saved_log, vectorstore,
                   documents_db, searched, call, state, trace, served, ret>>
    /\ UNCHANGED checkpoints

NextExtract == Extract

SpecExtract == InitExtract /\ [][NextExtract]_vars

(***************************************************************************)
(* One request from entry to return.  Every completion a node awaits       *)
(* returns or raises, and the graph then runs the node that is due: each   *)
(* node, and the return of process_query, is weakly fair.                   *)
(***************************************************************************)
NextRun ==
    \/ RagStart
    \/ AgentStart
    \/ CoordinatorNode
    \/ SpecialistNode
    \/ DocumentAnalysisNode
    \/ EvaluatorNode
    \/ Finish

SpecRun ==
    /\ Init
    /\ [][NextRun]_vars
    /\ WF_vars(CoordinatorNode)
    /\ WF_vars(SpecialistNode)
    /\ WF_vars(DocumentAnalysisNode)
    /\ WF_vars(EvaluatorNode)
    /\ WF_vars(Finish)

(***************************************************************************)
(* Concurrent requests.  process_legal_query and process_query are         *)
(* coroutines: a request runs without interruption up to the next call it  *)
(* awaits (the graph, and inside the graph each completion of the language *)
(* model), and between two such steps of one request any other request may *)
(* take steps.  Here pc, call, state, trace and result hold one value per  *)
(* request; the cache, the conversation stores and the checkpoints of the  *)
(* graph are shared.                                                       *)
(***************************************************************************)
MaxInFlight == 2   \* requests in flight at the same time

InFlight == 1..MaxInFlight
ConcQuestions == {Q_contrato, Q_Contrato}

\* config = {"configurable": {"thread_id": f"legal_query_{session_id}"}}; each
\* agent system compiles its graph with a MemorySaver of its own
ThreadId(impl, session_id) == <<impl, "legal_query_", session_id>>

\* graph.ainvoke(None, config): a thread that has a checkpoint resumes from it
ApplyInput_resume(saver, thread_id, initial_state) ==
    IF thread_id \in DOMAIN saver THEN saver[thread_id] ELSE initial_state

\* graph.ainvoke(initial_state, config): the channels of the thread's last
\* checkpoint, every key of the input assigned over them
ApplyInput(saver, thread_id, initial_state) ==
    LET channels == IF thread_id \in DOMAIN saver THEN saver[thread_id] ELSE EmptyDict
    IN  [k \in (DOMAIN channels) \cup (DOMAIN initial_state) |->
            IF k \in DOMAIN initial_state THEN initial_state[k] ELSE channels[k]]

\* an evaluator that appends to the history it read before the completion
SaveExchange_onto_context(store, conversation_context, st, legal_area) ==
    LET appended == Append(IF conversation_context = NewConversation THEN <<>>
                           ELSE conversation_context,
                           Exchange(st.question, st.final_answer, legal_area))
    IN  DictPut(store, st.session_id,
                IF Len(appended) > max_history_per_session
                THEN LastN(appended, max_history_per_session)
                ELSE appended)

\* the save that ends evaluator_node: conversation_context, read before the
\* completion, went into the prompt only; the exchange is appended to the
\* store as it is when the completion has returned
SaveExchange(store, conversation_context, st, legal_area) ==
    save_conversation_exchange(store, st.session_id, st.question, st.final_answer,
                               legal_area)

\* what earlier requests of session "s1" left behind: its history and the
\* last checkpoint of its thread
PriorExchange == Exchange(Q_short, <<"llm:", "evaluator">>, "tributario")

PriorStore(n) ==
    IF n = 0 THEN EmptyDict ELSE DictPut(EmptyDict, <<"s1">>, [i \in 1..n |-> PriorExchange])

PriorState ==
    LET st0 == _create_initial_state(Q_short, <<"ctx">>, <<>>, "u1", <<"s1">>)
        st1 == coordinator_node("refactored", st0,
                   [kind |-> "json", legal_area |-> "tributario", complexity |-> "medium"])
        st2 == _create_legal_area_node("tributario", st1,
                   [kind |-> "ok", content |-> <<"llm:", "tributario">>])
    IN  evaluator_node("refactored", st2,
            [kind |-> "text", content |-> <<"llm:", "evaluator">>, final_answer |-> <<>>,
             confidence |-> 0])[1]

\* the cache after an earlier request, scoped to document "d1", was answered
\* and stored
PriorCache ==
    CacheSet(<<>>, Q_contrato,
             RagResponse([category |-> determine_query_category(Q_contrato),
                          sources |-> <<>>, user_id |-> "u1"],
                         _format_final_response(PriorState)),
             ContextHash(<<"d1">>, TRUE, "u1"))

InitConcurrent ==
    /\ now = 0
    /\ served \in {0, max_history_per_session - 1, max_history_per_session}
    /\ cache = IF served = 0 THEN <<>> ELSE PriorCache
    /\ conversation_cache = EmptyDict
    /\ memory_service = PriorStore(served)
    /\ saved_log = [store \in Impls |->
                       IF store = "refactored" THEN PriorStore(served) ELSE EmptyDict]
    /\ checkpoints = IF served = 0 THEN EmptyDict
                     ELSE DictPut(EmptyDict, ThreadId("refactored", <<"s1">>), PriorState)
    /\ vectorstore = Nothing
    /\ documents_db = {}
    /\ searched = EmptyDict
    /\ ret = NoCall
    /\ pc = [r \in InFlight |-> "idle"]
    /\ call = [r \in InFlight |-> Nothing]
    /\ state = [r \in InFlight |-> Nothing]
    /\ trace = [r \in InFlight |-> <<>>]
    /\ result = [r \in InFlight |-> Nothing]

\* request r enters: process_legal_query up to the await of the agent system,
\* or process_query called directly, up to the first completion the graph awaits
ConcStart(r) ==
    /\ pc[r] = "idle"
    /\ served' = served + 1
    /\ \E entry \in {"rag", "agent"}, impl \in Impls, question \in ConcQuestions,
          user_id \in UserIds, session_id \in RagSessions :
         /\ entry = "rag" => impl = RagAgentSystem
         /\ LET context_hash == ContextHash(<<>>, TRUE, user_id)
                got == IF entry = "rag" THEN CacheGet(cache, question, context_hash)
                       ELSE <<Nothing, cache>>
                category == determine_query_category(question)
                found == IF entry = "rag"
                         THEN search_vectorstore(vectorstore, documents_db, question,
                                                 category, <<>>)
                         ELSE [context |-> <<"ctx">>, sources |-> <<>>]
                sid == IF session_id # Nothing THEN session_id[1]
                       ELSE GeneratedSession(user_id)
                args == [entry |-> entry, impl |-> impl, question |-> question,
                         user_id |-> user_id, session_id |-> session_id,
                         document_ids |-> <<>>, context_hash |-> context_hash,
                         category |-> category, sources |-> found.sources,
                         conversation_context |-> <<>>]
                path == IF entry = "rag"
                        THEN RagPath(got[1] # Nothing, impl, session_id, question)
                        ELSE "run"
                st == ApplyInput(checkpoints, ThreadId(impl, sid),
                                 _create_initial_state(question, found.context,
                                                       found.sources, user_id, sid))
            IN  /\ call' = [call EXCEPT ![r] = Some(args)]
                /\ IF path = "hit"
                   THEN /\ cache' = MarkFromCache(got[2],
                                        _generate_cache_key(question, context_hash))
                        /\ result' = [result EXCEPT ![r] =
                                         Some([got[1][1] EXCEPT !.from_cache = TRUE])]
                        /\ trace' = [trace EXCEPT ![r] = <<"cache">>]
                        /\ pc' = [pc EXCEPT ![r] = "returned"]
                        /\ UNCHANGED <<state, checkpoints>>
                   ELSE IF path = "error"
                   THEN /\ cache' = got[2]
                        /\ result' = [result EXCEPT ![r] = Some(RagErrorResponse(user_id))]
                        /\ trace' = [trace EXCEPT ![r] = <<"cache">>]
                        /\ pc' = [pc EXCEPT ![r] = "returned"]
                        /\ UNCHANGED <<state, checkpoints>>
                   ELSE /\ cache' = got[2]
                        /\ result' = result
                        /\ trace' = [trace EXCEPT ![r] =
                                        IF entry = "rag"
                                        THEN <<"cache", "classifier", "search", "agent">>
                                        ELSE <<"agent">>]
                        /\ pc' = [pc EXCEPT ![r] = "coordinator"]
                        /\ state' = [state EXCEPT ![r] = Some(st)]
                        /\ checkpoints' = DictPut(checkpoints, ThreadId(impl, sid), st)
    /\ UNCHANGED <<now, conversation_cache, memory_service, saved_log, vectorstore,
                   documents_db, searched, ret>>

ConcCoordinatorOutcomes ==
    {[kind |-> "raise", legal_area |-> None, complexity |-> None],
     [kind |-> "json", legal_area |-> "laboral", complexity |-> "medium"]}

ConcEvaluatorOutcomes ==
    {[kind |-> "raise", content |-> <<>>, final_answer |-> <<>>, confidence |-> 0],
     [kind |-> "text", content |-> <<" ", "llm:", "evaluator">>, final_answer |-> <<>>,
      confidence |-> 0],
     [kind |-> "json", content |-> <<"{", "consolidated", "}">>,
      final_answer |-> <<"consolidated">>, confidence |-> 85]}

\* the graph of request r writes the checkpoint of its thread after a step
Checkpointed(r, st) ==
    DictPut(checkpoints, ThreadId(call[r][1].impl, st.session_id), st)

\* the completion of the coordinator of request r arrives; the conditional
\* edge picks the stage
ConcCoordinator(r) ==
    /\ pc[r] = "coordinator"
    /\ \E o \in ConcCoordinatorOutcomes :
         LET st == coordinator_node(call[r][1].impl, state[r][1], o)
         IN  /\ state' = [state EXCEPT ![r] = Some(st)]
             /\ checkpoints' = Checkpointed(r, st)
             /\ pc' = [pc EXCEPT ![r] = _route_to_specialists(call[r][1].impl, st)]
    /\ trace' = [trace EXCEPT ![r] = Append(@, "coordinator")]
    /\ UNCHANGED <<now, cache, conversation_cache, memory_service, saved_log, vectorstore,
                   documents_db, searched, call, result, served, ret>>

\* the completion of the stage of request r arrives
ConcStage(r) ==
    /\ pc[r] \in SpecialistAreas("refactored") \cup {"document_analysis"}
    /\ \E o \in StageOutcomes(pc[r]) :
         LET st == IF pc[r] = "document_analysis"
                   THEN document_analysis_node(state[r][1], o)
                   ELSE _create_legal_area_node(pc[r], state[r][1], o)
         IN  /\ state' = [state EXCEPT ![r] = Some(st)]
             /\ checkpoints' = Checkpointed(r, st)
    /\ trace' = [trace EXCEPT ![r] = Append(@, pc[r])]
    /\ pc' = [pc EXCEPT ![r] = "evaluator"]
    /\ UNCHANGED <<now, cache, conversation_cache, memory_service, saved_log, vectorstore,
                   documents_db, searched, call, result, served, ret>>

\* the evaluator of request r reads the conversation context of its session
\* and awaits the consolidation
ConcEvaluatorCall(r) ==
    /\ pc[r] = "evaluator"
    /\ call' = [call EXCEPT ![r] = Some([@[1] EXCEPT !.conversation_context =
                   get_conversation_context(StoreOf(call[r][1].impl),
                                            state[r][1].session_id, 5)])]
    /\ pc' = [pc EXCEPT ![r] = "consolidating"]
    /\ UNCHANGED <<now, cache, conversation_cache, memory_service, saved_log, vectorstore,
                   documents_db, searched, state, trace, result, served, ret, checkpoints>>

\* the consolidation of request r arrives: the evaluator writes the state and
\* saves the exchange
ConcEvaluator(r) ==
    /\ pc[r] = "consolidating"
    /\ \E o \in ConcEvaluatorOutcomes :
         LET impl == call[r][1].impl
             e == evaluator_node(impl, state[r][1], o)
             st == e[1]
             store == SaveExchange(StoreOf(impl), call[r][1].conversation_context, st,
                                   e[2][1])
         IN  /\ state' = [state EXCEPT ![r] = Some(st)]
             /\ checkpoints' = Checkpointed(r, st)
             /\ IF e[2] = Nothing
                THEN UNCHANGED <<conversation_cache, memory_service, saved_log>>
                ELSE /\ conversation_cache' = IF impl = "legacy" THEN store
                                              ELSE conversation_cache
                     /\ memory_service' = IF impl = "legacy" THEN memory_service ELSE store
                     /\ saved_log' = [saved_log EXCEPT ![impl] =
                            LogSave(@, st.session_id, st.question, st.final_answer, e[2][1])]
    /\ trace' = [trace EXCEPT ![r] = Append(@, "evaluator")]
    /\ pc' = [pc EXCEPT ![r] = "end"]
    /\ UNCHANGED <<now, cache, vectorstore, documents_db, searched, call, result, served,
                   ret>>

\* the graph of request r has ended: process_query returns, and
\* process_legal_query builds its response and stores it when it may be cached.
\* ret keeps the last store into the cache: who made it and what was stored
ConcFinish(r) ==
    /\ pc[r] = "end"
    /\ LET args == call[r][1]
           agent_response == _format_final_response(state[r][1])
           responded == RagRespond(cache, args, agent_response)
       IN  IF args.entry = "agent"
           THEN /\ result' = [result EXCEPT ![r] = Some(agent_response)]
                /\ UNCHANGED <<cache, ret>>
           ELSE /\ result' = [result EXCEPT ![r] = Some(responded[1])]
                /\ cache' = responded[2]
                /\ ret' = IF ~responded[1].error
                             /\ should_cache_query(args.question, responded[1])
                          THEN [op |-> "set", by |-> r,
                                key |-> _generate_cache_key(args.question,
                                                            args.context_hash)]
                          ELSE ret
    /\ trace' = [trace EXCEPT ![r] = Append(@, "end")]
    /\ pc' = [pc EXCEPT ![r] = "returned"]
    /\ UNCHANGED <<now, conversation_cache, memory_service, saved_log, vectorstore,
                   documents_db, searched, call, state, served, checkpoints>>

NextConcurrent ==
    \E r \in InFlight :
        \/ ConcStart(r)
        \/ ConcCoordinator(r)
        \/ ConcStage(r)
        \/ ConcEvaluatorCall(r)
        \/ ConcEvaluator(r)
        \/ ConcFinish(r)

SpecConcurrent == InitConcurrent /\ [][NextConcurrent]_vars

(***************************************************************************)
(* Claims about the Response Cache (SpecCache)                             *)
(***************************************************************************)
CreatedAt(e) == fromisoformat(e.created_at)
LastAccessed(e) == fromisoformat(e.last_accessed)
Ttl == timedelta(ttl_hours)
KeysOf(c) == {c[i].key : i \in 1..Len(c)}
EntryOf(c, k) == c[CHOOSE i \in 1..Len(c) : c[i].key = k]
RetKey == _generate_cache_key(ret.question, ret.context_hash)
RetKeyNext == _generate_cache_key(ret'.question, ret'.context_hash)

\* C5: a get for an entry whose age exceeds the TTL returns absent and removes
\* the entry, whatever hits it received; a hit never changes created_at, so it
\* does not extend the entry's life.
C5_ExpiredNeverReturned ==
    [][ret'.op = "get" /\ RetKeyNext \in KeysOf(cache) =>
         LET e == EntryOf(cache, RetKeyNext)
         IN  IF now > CreatedAt(e) + Ttl
             THEN ret'.value = Nothing /\ RetKeyNext \notin KeysOf(cache')
             ELSE /\ RetKeyNext \in KeysOf(cache')
                  /\ EntryOf(cache', RetKeyNext).created_at = e.created_at
                  /\ EntryOf(cache', RetKeyNext).access_count = e.access_count + 1
                  /\ LastAccessed(EntryOf(cache', RetKeyNext)) = now]_vars

\* an entry that was hit after its creation is asked for after its TTL
C5_Witness ==
    /\ ret.op = "get"
    /\ ret.value = Nothing
    /\ ret.hits > 1
    /\ RetKey \notin KeysOf(cache)
    /\ now > Ttl

\* (access_count, last_accessed) of e is not above that of f
NotAbove(e, f) ==
    \/ e.access_count < f.access_count
    \/ e.access_count = f.access_count /\ LastAccessed(e) <= LastAccessed(f)

\* C6: a set on a full cache evicts exactly one entry, and that entry has the
\* minimal (access_count, last_accessed) pair of all entries present.
C6_EvictsGlobalMinimum ==
    [][ret'.op = "set" /\ Len(cache) >= max_size =>
         /\ Len(ret'.evicted) = 1
         /\ ret'.evicted[1] \in KeysOf(cache)
         /\ \A j \in 1..Len(cache) : NotAbove(EntryOf(cache, ret'.evicted[1]), cache[j])
         /\ KeysOf(cache') = (KeysOf(cache) \ {ret'.evicted[1]}) \cup {RetKeyNext}]_vars

\* a set on a full cache evicted an entry that was not the oldest insertion
C6_Witness ==
    /\ ret.op = "set"
    /\ Len(ret.evicted) = 1
    /\ ret.evicted[1] # RetKey
    /\ Len(cache) = max_size
    /\ \E i \in 1..Len(cache) : cache[i].access_count > 1

(***************************************************************************)
(* Claims about Conversation Memory (SpecMemory)                           *)
(***************************************************************************)
Min(a, b) == IF a < b THEN a ELSE b

\* the last k elements of l, for k <= Len(l)
Suffix(l, k) == [i \in 1..k |-> l[Len(l) - k + i]]

\* C7: after n saves on a session its history is exactly the last
\* min(n, max_history_per_session) saved exchanges, in append order, and what
\* get_conversation_context renders comes from those only.
C7_HistoryIsLastSaved ==
    /\ DOMAIN memory_service = DOMAIN saved_log.refactored
    /\ \A s \in DOMAIN memory_service :
         LET log == saved_log.refactored[s]
         IN  memory_service[s] = Suffix(log, Min(Len(log), max_history_per_session))
    /\ ret.op = "get_context" /\ ret.session_id \in DOMAIN memory_service =>
         LET log == saved_log.refactored[ret.session_id]
             kept == Suffix(log, Min(Len(log), max_history_per_session))
         IN  \E k \in 0..Len(kept) :
                /\ Len(ret.value) = k
                /\ \A i \in 1..k :
                     LET x == Suffix(kept, k)[i]
                     IN  /\ ret.value[i].question = x.question
                         /\ ret.value[i].answer = x.answer

\* more saves than the bound, with differing questions, then a context read
C7_Witness ==
    /\ ret.op = "get_context"
    /\ ret.session_id \in DOMAIN memory_service
    /\ Len(saved_log.refactored[ret.session_id]) > max_history_per_session
    /\ saved_log.refactored[ret.session_id][1].question
          # saved_log.refactored[ret.session_id][2].question
    /\ Len(ret.value) > 0

(***************************************************************************)
(* Claims about process_legal_query (Spec)                                 *)
(***************************************************************************)
\* C1: whatever the index, the document store and the completions did, the
\* result process_query returns has a confidence within [0, 1] and an answer
\* that is not null.
C1_ResultWellFormed ==
    (pc = "returned" /\ call[1].entry = "rag") =>
        /\ result # Nothing
        /\ result[1].confidence \in 0..100
        /\ result[1].answer # NullAnswer

\* C3: a blank question returns confidence 0.0, legal_area "error" and no
\* sources, and neither retrieval nor any pipeline stage was invoked for it.
C3_BlankShortCircuits ==
    (pc = "returned" /\ call[1].entry = "rag" /\ Strip(call[1].question) = <<>>) =>
        /\ result[1].confidence = 0
        /\ result[1].legal_area = "error"
        /\ result[1].sources = <<>>
        /\ \A i \in 1..Len(trace) : trace[i] \in {"cache", "agent"}

\* not more than the TTL has elapsed since the entry was created
IsFresh(e) == now <= CreatedAt(e) + Ttl

\* a response without the flag the hit path writes into it
Payload(r) == [r EXCEPT !.from_cache = FALSE]

StartedKey == _generate_cache_key(call'[1].question, call'[1].context_hash)

\* C4: a stored result is what was returned for its key, created now; until its
\* TTL elapses or it is evicted the entry stays with that result and creation
\* time; and a process_query whose normalized question and discriminator hit
\* a fresh entry returns that result with metadata.from_cache = true.
C4_StoredResultServed ==
    [][/\ \A k \in KeysOf(cache') \ KeysOf(cache) :
             /\ pc' = "returned"
             /\ k = StartedKey
             /\ EntryOf(cache', k).response = result'[1]
             /\ CreatedAt(EntryOf(cache', k)) = now
       /\ \A k \in KeysOf(cache) :
             IF k \in KeysOf(cache')
             THEN /\ Payload(EntryOf(cache', k).response) = Payload(EntryOf(cache, k).response)
                  /\ EntryOf(cache', k).created_at = EntryOf(cache, k).created_at
             ELSE ~IsFresh(EntryOf(cache, k)) \/ Len(cache) >= max_size
       /\ (pc = "idle" /\ pc' # "idle" /\ StartedKey \in KeysOf(cache)
              /\ IsFresh(EntryOf(cache, StartedKey)))
          => (/\ pc' = "returned"
              /\ Payload(result'[1]) = Payload(EntryOf(cache, StartedKey).response)
              /\ result'[1].from_cache
              /\ StartedKey \in KeysOf(cache'))]_vars

\* a question differing in case and outer blanks from the one stored is
\* answered from the cache some time after the entry was created
C4_Witness ==
    /\ pc = "returned"
    /\ trace = <<"cache">>
    /\ result # Nothing
    /\ result[1].from_cache
    /\ call[1].question = Q_Contrato
    /\ \E i \in 1..Len(cache) :
          /\ cache[i].key = _generate_cache_key(call[1].question, call[1].context_hash)
          /\ cache[i].response.answer = result[1].answer
          /\ CreatedAt(cache[i]) < now
          /\ cache[i].access_count = 2

(***************************************************************************)
(* Claims about the pipeline (SpecAgent, SpecRoute)                        *)
(***************************************************************************)
\* C2: once the evaluator has run on a state with has_specific_documents and a
\* document_analysis response, final_answer and the returned answer are that
\* response's content exactly, for every legal_area and also when the response
\* is the degraded error response.
C2_DocumentPriority ==
    (pc \in {"end", "returned"} /\ state # Nothing
        /\ state[1].has_specific_documents
        /\ "document_analysis" \in DOMAIN state[1].responses)
    => (/\ state[1].final_answer = state[1].responses["document_analysis"].content
        /\ pc = "returned" =>
              result[1].answer = state[1].responses["document_analysis"].content)

\* the legacy system returned the degraded document answer for a labour question
C2_Witness ==
    /\ pc = "returned"
    /\ state # Nothing
    /\ call[1].impl = "legacy"
    /\ state[1].has_specific_documents
    /\ state[1].legal_area = "laboral"
    /\ "document_analysis" \in DOMAIN state[1].responses
    /\ state[1].responses["document_analysis"].error
    /\ result[1].answer = DocumentErrorContent

Stages == SpecialistAreas("refactored") \cup {"document_analysis"}

\* C8: every pipeline execution visits the coordinator, then exactly one
\* specialist or document_analysis, then the evaluator, then ends; responses
\* holds exactly one entry when the evaluator starts.
C8_PipelinePath ==
    /\ (pc = "evaluator") => Cardinality(DOMAIN state[1].responses) = 1
    /\ (pc = "returned" /\ state # Nothing) =>
          \E s \in Stages : trace = <<"agent", "coordinator", s, "evaluator", "end">>

\* C9: routing is a function of the state alone: document_analysis whenever
\* has_specific_documents is true, else the specialist named by legal_area when
\* it names one, else civil.
C9_RouteByState ==
    pc # "route" =>
        LET st == state[1]
        IN  pc = IF st.has_specific_documents THEN "document_analysis"
                 ELSE IF st.legal_area \in SpecialistAreas(call[1].impl) THEN st.legal_area
                 ELSE "civil"

Classified(question) ==
    /\ pc = "returned"
    /\ call # Nothing
    /\ call[1].entry = "classify"
    /\ call[1].question = question

\* C11: classify("?Como constituyo una SAS?") returns a category of the
\* constitucion family and a complexity of medium or complex, never simple
C11_SasClassification ==
    Classified(Q_sas) =>
        (/\ result[1].category = "constitucion"
         /\ result[1].complexity \in {"medium", "complex"})

\* what the code returns for that question: constitucion, and simple (four words,
\* no indicator phrase)
C11_SasIsSimple ==
    Classified(Q_sas) =>
        (/\ result[1].category = "constitucion"
         /\ result[1].complexity = "simple")

C11_Witness == Classified(Q_sas)

(***************************************************************************)
(* Claims about what the Response Cache holds (Spec)                       *)
(***************************************************************************)
\* C12: every entry of the Response Cache was stored for a question whose trimmed
\* length is between 10 and the longest stored (500) and holds a result with confidence at least 0.7
\* and no error marker in its metadata
C12_CachedAreEligible ==
    \A i \in 1..Len(cache) :
        /\ Len(cache[i].key[1]) >= 10
        /\ Len(cache[i].key[1]) <= MaxQuestionLength
        /\ cache[i].response.confidence >= 70
        /\ ~cache[i].response.metadata_error

\* a confident answer to a question too short or too long was returned and not
\* stored while the cache holds an entry
C12_Witness ==
    /\ pc = "returned"
    /\ call[1].entry = "rag"
    /\ call[1].question \in {Q_short, Q_long}
    /\ result[1].confidence >= 70
    /\ ~result[1].from_cache
    /\ Len(cache) > 0

(***************************************************************************)
(* Claims about the order of a request's steps (Spec)                      *)
(***************************************************************************)
\* the request in flight was started through process_legal_query with a
\* non-blank question, missed the cache, and has returned
MissReturned ==
    /\ pc = "returned"
    /\ call # Nothing
    /\ call[1].entry = "rag"
    /\ ~BlankQuestion(call[1].question)
    /\ ~result[1].from_cache

\* the answer the pipeline handed back to process_legal_query
PipelineAnswer ==
    IF trace[Len(trace)] = "end" THEN _format_final_response(state[1]).answer
    ELSE AgentErrorResponse.answer

\* C13: on a cache miss for a non-blank question the request invokes the
\* classifier, then retrieval, then the pipeline, then stores the result when it
\* is eligible, and returns the pipeline's answer, with or without a session_id
C13_MissRunsInOrder ==
    MissReturned =>
        (/\ Len(trace) > 4
         /\ SubSeq(trace, 1, 4) = <<"cache", "classifier", "search", "agent">>
         /\ result[1].answer = PipelineAnswer
         /\ should_cache_query(call[1].question, result[1]) =>
                \E i \in 1..Len(cache) :
                    /\ cache[i].key = _generate_cache_key(call[1].question,
                                                          call[1].context_hash)
                    /\ cache[i].response = result[1])

(***************************************************************************)
(* Claims about the evaluator's writes (SpecAgent)                         *)
(***************************************************************************)
\* the exchanges saved so far for a session of a store
SavedFor(log, impl, session_id) ==
    IF session_id \in DOMAIN log[impl] THEN log[impl][session_id] ELSE <<>>

\* C14: a pipeline run that reaches the end of the graph has appended exactly one
\* exchange, holding its question and final_answer, to its session's Conversation
\* Memory, on every path through the evaluator (document pass-through,
\* consolidation, exception fallback)
C14_RunSavesOneExchange ==
    [][(pc = "evaluator" /\ pc' = "end") =>
          LET impl == call[1].impl
              st == state'[1]
              before == SavedFor(saved_log, impl, st.session_id)
              after == SavedFor(saved_log', impl, st.session_id)
              memory == IF impl = "legacy" THEN conversation_cache' ELSE memory_service'
          IN  /\ Len(after) = Len(before) + 1
              /\ after[Len(after)].question = st.question
              /\ after[Len(after)].answer = st.final_answer
              /\ st.session_id \in DOMAIN memory
              /\ memory[st.session_id][Len(memory[st.session_id])] = after[Len(after)]]_vars

\* the number of assignments of a key of the state in the run in flight
Writes(key) ==
    Cardinality({i \in 1..Len(state[1].written) : state[1].written[i].key = key})

\* C15: within one run responses[stage], final_answer and confidence are each
\* assigned at most once and keep their value afterwards; responses[stage] is
\* assigned by the stage of that name only; final_answer and confidence are
\* assigned exactly once, by the evaluator or its exception fallback
C15_WrittenOnce ==
    /\ [](state # Nothing =>
            LET w == state[1].written
            IN  /\ \A i \in 1..Len(w) :
                     /\ Writes(w[i].key) = 1
                     /\ w[i].key[1] = "responses" => w[i].by = w[i].key[2]
                     /\ w[i].key[1] # "responses" =>
                            w[i].by \in {"evaluator", "evaluator_fallback"}
                /\ pc = "end" => (Writes(<<"final_answer">>) = 1 /\ Writes(<<"confidence">>) = 1))
    /\ [][(state # Nothing /\ state' # Nothing) =>
             /\ \A stage \in DOMAIN state[1].responses :
                    /\ stage \in DOMAIN state'[1].responses
                    /\ state'[1].responses[stage] = state[1].responses[stage]
             /\ Writes(<<"final_answer">>) > 0 =>
                    state'[1].final_answer = state[1].final_answer
             /\ Writes(<<"confidence">>) > 0 =>
                    state'[1].confidence = state[1].confidence]_vars

(***************************************************************************)
(* Claims about the search paths (SpecSearch)                              *)
(***************************************************************************)
\* C16: a search with a non-empty document scope and an index configured first
\* searches the index with breadth 5 k, and enters direct analysis only when no
\* index is configured or the index search yielded nothing
C16_ScopedSearchUsesIndex ==
    (ret.op = "search" /\ Len(ret.args[3]) > 0) =>
        (/\ vectorstore # Nothing =>
                (/\ Len(ret.index_calls) > 0
                 /\ ret.index_calls[1] = 5 * query_configs(ret.args[2]).k)
         /\ ret.direct => (vectorstore = Nothing \/ Len(ret.index_calls) > 0))

\* an unscoped search has just returned
UnscopedSearch == ret.op = "search" /\ Len(ret.args[3]) = 0

\* C17: an unscoped search made with no index configured, or whose index call
\* raises, returns the fixed general-legislation context with exactly one
\* synthetic source, and does not raise
C17_UnscopedFallback ==
    (UnscopedSearch /\ (vectorstore = Nothing \/ ~vectorstore[1].answers)) =>
        (/\ ret.value.context = FallbackContext
         /\ Len(ret.value.sources) = 1
         /\ ret.value.sources[1] = FallbackSource)

\* an unscoped search was answered while the index call raises
C17_Witness ==
    /\ UnscopedSearch
    /\ vectorstore # Nothing
    /\ ~vectorstore[1].answers

\* a source taken from a document of the scope: a scoped index hit or a
\* directly analyzed document
FromScopedDocument(source) ==
    source.metadata_source = "user_upload" \/ source.source = "direct_analysis"

C19_FallbackUsesSpecialist ==
    (state # Nothing /\ state[1].evaluation = "fallback") =>
        LET st == state[1]
        IN  IF DOMAIN st.responses # {}
            THEN \E stage \in DOMAIN st.responses :
                    /\ st.final_answer = st.responses[stage].content
                    /\ st.confidence = st.responses[stage].confidence
                    /\ st.suggestions = st.responses[stage].suggestions
            ELSE st.final_answer = EvaluatorApology /\ st.confidence = 10

(***************************************************************************)
(* Claims about degraded runs and the Response Cache (Spec)                *)
(***************************************************************************)
\* a stage of the run fell back after a failure: the coordinator's default after a
\* failed call, a degraded stage response, or the evaluator's exception fallback
FellBack(st) ==
    \/ st.coordination = "fallback"
    \/ \E stage \in DOMAIN st.responses : st.responses[stage].error
    \/ st.evaluation = "fallback"

\* C20: the result of a run in which a stage fell back after a failure is never
\* stored in the Response Cache
C20_DegradedNeverCached ==
    (/\ pc = "returned"
     /\ call[1].entry = "rag"
     /\ state # Nothing
     /\ trace[Len(trace)] = "end"
     /\ FellBack(state[1]))
    => _generate_cache_key(call[1].question, call[1].context_hash) \notin KeysOf(cache)

(***************************************************************************)
(* Claims about requests answered from the Response Cache (Spec)           *)
(***************************************************************************)
\* the request that starts in this step finds a fresh entry under its key
StartsOnFreshEntry ==
    /\ pc = "idle"
    /\ pc' # "idle"
    /\ call'[1].entry = "rag"
    /\ StartedKey \in KeysOf(cache)
    /\ ~_is_expired(EntryOf(cache, StartedKey))

\* C21: a request answered from the Response Cache invokes neither the classifier
\* nor retrieval nor any pipeline stage, and appends no exchange to any session
\* of the Conversation Memory
C21_HitTouchesNothing ==
    [][StartsOnFreshEntry =>
          /\ pc' = "returned"
          /\ result'[1].from_cache
          /\ trace' = <<"cache">>
          /\ state' = Nothing
          /\ UNCHANGED <<conversation_cache, memory_service, saved_log>>]_vars

\* a request carrying a session_id was answered from the cache
C21_Witness ==
    /\ pc = "returned"
    /\ call[1].entry = "rag"
    /\ call[1].session_id # Nothing
    /\ result[1].from_cache
    /\ trace = <<"cache">>

(***************************************************************************)
(* Claims about failing stages (SpecAgent)                                 *)
(***************************************************************************)
\* C22: a topic specialist or document_analysis always completes: it stores a
\* response under its own name and the run continues to the evaluator; when its
\* call raised, the response is the degraded one, with confidence 0.1 and the
\* generic retry suggestions; no other response is touched
C22_StageAlwaysCompletes ==
    [][(pc \in Stages) =>
          (/\ pc' = "evaluator"
           /\ pc \in DOMAIN state'[1].responses
           /\ (state'[1].responses[pc].error
                  \/ state'[1].responses[pc].content = <<"llm:", pc>>)
           /\ (state'[1].responses[pc].error =>
                  (/\ state'[1].responses[pc].confidence = 10
                   /\ state'[1].responses[pc].suggestions = "retry"
                   /\ state'[1].responses[pc].content # <<>>))
           /\ (\A stage \in DOMAIN state'[1].responses \ {pc} :
                  (/\ stage \in DOMAIN state[1].responses
                   /\ state'[1].responses[stage] = state[1].responses[stage])))]_vars

\* the evaluator is about to run on the degraded response of a topic specialist
C22_Witness ==
    /\ pc = "evaluator"
    /\ \E stage \in SpecialistAreas("refactored") :
          /\ stage \in DOMAIN state[1].responses
          /\ state[1].responses[stage].error
          /\ state[1].responses[stage].confidence = 10

\* C23: whenever the completion of the coordinator is not an object with
\* legal_area and complexity (blank text, text that is not JSON, JSON
\* without the keys) or the call raises, the coordinator leaves legal_area =
\* "civil" and complexity = "medium" in the state.  workflow_nodes.py reads
\* the area out of text that is not JSON, so the state can hold "laboral"
C23_UnparsedIsCivil ==
    (state # Nothing /\ state[1].coordination \in {"fallback", "default", "text"})
        => (state[1].legal_area = "civil" /\ state[1].complexity = "medium")

\* C24: when the completion of the consolidation is not an object with
\* final_answer and confidence (text that is not JSON, JSON without the
\* keys), the evaluator takes the raw text as final_answer and sets the
\* confidence to 0.7.  workflow_nodes.py takes the text with the mean of the
\* stage confidences (0.8, or 0.1 after a degraded stage); legal_agents.py
\* falls back to the specialist's response or to the apology
C24_UnparsedIsRawText ==
    [][(pc = "evaluator" /\ ~UsesDocumentAnalysis(state[1])) =>
          (\A o \in EvaluatorOutcomes :
              (/\ o.kind \in {"text", "json_bad", "json_partial"}
               /\ state' = Some(evaluator_node(call[1].impl, state[1], o)[1]))
              => (/\ state'[1].final_answer \in {o.content, Strip(o.content)}
                  /\ state'[1].confidence = 70))]_vars

(***************************************************************************)
(* Claims about concurrent requests (SpecConcurrent)                       *)
(***************************************************************************)
ConcSessionIds == {<<"s1">>, GeneratedSession("u1")}

\* the requests of session session_id, served by impl, whose evaluator has
\* returned without taking its except clause
CompletedRuns(impl, session_id) ==
    {r \in InFlight : /\ call[r] # Nothing
                      /\ call[r][1].impl = impl
                      /\ state[r] # Nothing
                      /\ state[r][1].session_id = session_id
                      /\ pc[r] \in {"end", "returned"}
                      /\ state[r][1].evaluation # "fallback"}

\* the exchanges the session held before the first of these requests came in
PriorExchanges(impl, session_id) ==
    IF impl = "refactored" /\ session_id = <<"s1">>
    THEN served - Cardinality({r \in InFlight : pc[r] # "idle"})
    ELSE 0

SameExchange(h, r) ==
    h.question = state[r][1].question /\ h.answer = state[r][1].final_answer

\* C25: with requests of one session in flight together, every run whose
\* evaluator returned without exception has added exactly one exchange to
\* the history of its session: while the total is within
\* max_history_per_session the history holds as many exchanges as were there
\* before plus one per such run, each run's exchange as often as there are
\* runs with that exchange; and the history never holds more than
\* max_history_per_session exchanges
C25_ConcurrentSavesAllKept ==
    \A impl \in Impls, session_id \in ConcSessionIds :
        LET history == IF session_id \in DOMAIN StoreOf(impl)
                       THEN StoreOf(impl)[session_id] ELSE <<>>
            runs == CompletedRuns(impl, session_id)
            total == PriorExchanges(impl, session_id) + Cardinality(runs)
        IN  /\ Len(history) <= max_history_per_session
            /\ Len(history) = IF total <= max_history_per_session THEN total
                              ELSE max_history_per_session
            /\ total <= max_history_per_session =>
                  \A r \in runs :
                      Cardinality({i \in 1..Len(history) : SameExchange(history[i], r)})
                          = Cardinality({q \in runs :
                                            /\ state[q][1].question = state[r][1].question
                                            /\ state[q][1].final_answer
                                                  = state[r][1].final_answer})

\* two requests of session "s1" read the same conversation context, one
\* exchange short of the bound, before either saved, and both have saved
C25_Witness ==
    /\ CompletedRuns("refactored", <<"s1">>) = {1, 2}
    /\ call[1][1].conversation_context = call[2][1].conversation_context
    /\ PriorExchanges("refactored", <<"s1">>) = max_history_per_session - 1
    /\ Len(memory_service[<<"s1">>]) = max_history_per_session
    /\ SameExchange(memory_service[<<"s1">>][max_history_per_session], 1)

ConcKey(r) == _generate_cache_key(call[r][1].question, call[r][1].context_hash)

EntriesFor(k) == {i \in 1..Len(cache) : cache[i].key = k}

\* every request came through process_legal_query, missed the cache and has returned
AllMissedAndReturned ==
    \A r \in InFlight :
        /\ pc[r] = "returned"
        /\ call[r][1].entry = "rag"
        /\ ~result[r][1].from_cache
        /\ ConcKey(r) = ConcKey(1)

RanPipeline(r) == trace[r] # <<>> /\ trace[r][Len(trace[r])] = "end"

StepOf(r) == pc'[r] # pc[r]

\* C27: the pipeline state of a request in flight is neither written nor
\* read by another request, also when both use one session_id and so one
\* checkpoint thread: a step of another request leaves the request's call,
\* state and result as they are; the state a request starts with holds its
\* own question and session and empty legal_area, responses, final_answer
\* and confidence, whatever the checkpoint of its thread holds; a node of
\* the request keeps question and session and adds only its own response to
\* the responses the request already had; and the result returned is the
\* final_answer and confidence of the request's own state
C27_StateIsPrivate ==
    [][\A r \in InFlight :
          /\ ~StepOf(r) =>
                (state'[r] = state[r] /\ call'[r] = call[r] /\ result'[r] = result[r])
          /\ (pc[r] = "idle" /\ pc'[r] = "coordinator") =>
                (/\ {"question", "session_id", "legal_area", "complexity", "responses",
                     "final_answer", "confidence"} \subseteq DOMAIN state'[r][1]
                 /\ state'[r][1].question = Strip(call'[r][1].question)
                 /\ state'[r][1].session_id =
                       IF call'[r][1].session_id # Nothing THEN call'[r][1].session_id[1]
                       ELSE GeneratedSession(call'[r][1].user_id)
                 /\ state'[r][1].legal_area = ""
                 /\ state'[r][1].complexity = ""
                 /\ state'[r][1].responses = EmptyDict
                 /\ state'[r][1].final_answer = <<>>
                 /\ state'[r][1].confidence = 0)
          /\ (StepOf(r) /\ state[r] # Nothing) =>
                (/\ state'[r] # Nothing
                 /\ state'[r][1].question = state[r][1].question
                 /\ state'[r][1].session_id = state[r][1].session_id
                 /\ DOMAIN state'[r][1].responses \subseteq
                       (DOMAIN state[r][1].responses) \cup {pc[r]}
                 /\ \A stage \in DOMAIN state[r][1].responses :
                       /\ stage \in DOMAIN state'[r][1].responses
                       /\ state'[r][1].responses[stage] = state[r][1].responses[stage])
          /\ (pc[r] = "end" /\ pc'[r] = "returned") =>
                (/\ result'[r][1].answer = state[r][1].final_answer
                 /\ result'[r][1].confidence = state[r][1].confidence)]_vars

\* two requests of session "s1" on one graph: the second entered when the
\* first had its area and its specialist's response, which the checkpoint of
\* their thread then held, and it is at the coordinator with a state of its own
C27_Witness ==
    /\ pc[1] = "evaluator" /\ pc[2] = "coordinator"
    /\ call[1][1].impl = "refactored" /\ call[2][1].impl = "refactored"
    /\ state[1][1].session_id = <<"s1">> /\ state[2][1].session_id = <<"s1">>
    /\ state[1][1].legal_area = "laboral"
    /\ DOMAIN state[1][1].responses = {"laboral"}
    /\ state[2][1].legal_area = ""
    /\ state[2][1].responses = EmptyDict
    /\ checkpoints[ThreadId("refactored", <<"s1">>)] = state[2][1]

\* the session whose conversation history the run of request r reads
SessionOf(r) ==
    IF call[r][1].session_id # Nothing THEN call[r][1].session_id[1]
    ELSE GeneratedSession(call[r][1].user_id)

\* C28: a result computed with the conversation history of one session is
\* never returned from the cache to a request of another session: a request
\* answered from the cache has the session of a request whose pipeline run
\* produced that result.  The key holds no session_id, and the lookup comes
\* before the session is looked at
C28_HitsStayInSession ==
    \A q \in InFlight :
        (pc[q] = "returned" /\ call[q][1].entry = "rag" /\ result[q][1].from_cache)
            => \E r \in InFlight \ {q} :
                   /\ pc[r] = "returned"
                   /\ call[r][1].entry = "rag"
                   /\ RanPipeline(r)
                   /\ Payload(result[r][1]) = Payload(result[q][1])
                   /\ SessionOf(r) = SessionOf(q)

(***************************************************************************)
(* Claims about the capacity of the Response Cache (SpecCache)             *)
(***************************************************************************)
\* C29: in every reachable state the cache holds at most max_size entries,
\* whatever sequence of get, set and clear_expired calls was made, and no
\* key twice
C29_AtMostMaxSize ==
    /\ Len(cache) <= max_size
    /\ Cardinality(KeysOf(cache)) = Len(cache)

\* a set for a new key on a full cache: an entry was evicted and the cache is
\* full again
C29_Witness ==
    /\ ret.op = "set"
    /\ Len(cache) = max_size
    /\ Len(ret.evicted) = 1
    /\ ret.evicted[1] \notin KeysOf(cache)
    /\ RetKey \in KeysOf(cache)

\* C30: a set for a key that is already in the cache replaces that entry
\* only: the cache holds the same keys afterwards and every other entry is
\* as it was, also when the cache is at capacity.  set evicts whenever the
\* cache is full, before it looks whether the key is present
C30_OverwriteKeepsOthers ==
    [][(ret'.op = "set" /\ RetKeyNext \in KeysOf(cache)) =>
          (/\ KeysOf(cache') = KeysOf(cache)
           /\ \A k \in KeysOf(cache) \ {RetKeyNext} :
                 EntryOf(cache', k) = EntryOf(cache, k))]_vars

(***************************************************************************)
(* Claims about termination (SpecRun)                                      *)
(***************************************************************************)
\* the nodes of the graph the request in flight has run, in order
NodesRun == SelectSeq(trace, LAMBDA t : t \in Stages \cup {"coordinator", "evaluator"})

\* C31: provided every completion returns or raises, every request that has
\* entered eventually returns a result; on the way no node of the graph
\* runs twice, and the nodes run are the coordinator, at most one stage and
\* the evaluator, in this order
C31_EveryRequestReturns ==
    /\ [](/\ \A i, j \in 1..Len(NodesRun) : NodesRun[i] = NodesRun[j] => i = j
          /\ Len(NodesRun) <= 3
          /\ pc = "returned" => result # Nothing)
    /\ (pc # "idle") ~> (pc = "returned")

\* a run in which the coordinator, the specialist and the evaluator all
\* raised has returned its result
C31_Witness ==
    /\ pc = "returned"
    /\ result # Nothing
    /\ NodesRun = <<"coordinator", "civil", "evaluator">>
    /\ state[1].coordination = "fallback"
    /\ state[1].responses["civil"].error
    /\ state[1].evaluation = "fallback"

(***************************************************************************)
(* Claims about the reading side of Conversation Memory (SpecMemory)       *)
(***************************************************************************)
\* C32: for a session with n stored exchanges and max_history >= 0,
\* get_conversation_context renders exactly min(max_history, n) exchanges:
\* the most recent ones, oldest first, numbered from 1.  The slice
\* history[-max_history:] is the whole history for max_history = 0
C32_RendersMostRecent ==
    (ret.op = "get_context" /\ ret.session_id \in DOMAIN memory_service) =>
        LET history == memory_service[ret.session_id]
            n == Len(history)
            k == Min(ret.max_history, n)
        IN  /\ Len(ret.value) = k
            /\ \A i \in 1..Len(ret.value) :
                  /\ ret.value[i].n = i
                  /\ i <= k =>
                        /\ ret.value[i].question = history[n - k + i].question
                        /\ ret.value[i].answer = history[n - k + i].answer
                        /\ ret.value[i].legal_area = history[n - k + i].legal_area

\* C33: clear_conversation_history returns true iff the session had stored
\* history and leaves the history of every other session as it was; a
\* get_conversation_context of the session made next returns the
\* new-conversation marker, a summary made next reports 0 exchanges, and a
\* second clear made next returns false
C33_ClearForgetsOneSession ==
    [][/\ ret'.op = "clear" =>
             /\ ret'.value = (/\ ret'.session_id \in DOMAIN memory_service
                              /\ memory_service[ret'.session_id] # <<>>)
             /\ DOMAIN memory_service' = (DOMAIN memory_service) \ {ret'.session_id}
             /\ \A other \in DOMAIN memory_service' :
                   memory_service'[other] = memory_service[other]
       /\ (ret.op = "clear" /\ ret'.op # "save" /\ ret'.session_id = ret.session_id) =>
             /\ ret'.op = "get_context" => ret'.value = NewConversation
             /\ ret'.op = "summary" => ret'.value.exchanges = 0
             /\ ret'.op = "clear" => ret'.value = FALSE]_vars

\* a clear returned true for a session with history while another session
\* kept its own
C33_Witness ==
    /\ ret.op = "clear"
    /\ ret.value
    /\ ret.session_id \notin DOMAIN memory_service
    /\ \E other \in DOMAIN memory_service : Len(memory_service[other]) > 1

(***************************************************************************)
(* Claims about direct analysis of scoped documents (SpecExtract)          *)
(***************************************************************************)
\* the question's keywords: its tokens longer than 3 characters
QuestionKeywords(question) == {word \in FindallWords(Lower(question)) : Len(word) > 3}

KeywordsIn(paragraph, question) ==
    Cardinality({word \in QuestionKeywords(question) : Contains(Lower(paragraph), word)})

\* C36: the paragraphs direct analysis takes from a text are the eligible
\* ones (at least 50 characters) that hold at least 2 question keywords, or
\* at least 1 when the question has at most 2 keywords, up to the cap of 5;
\* when there is none, they are the first 3 eligible paragraphs
C36_EligibleFrom50 ==
    (pc = "returned" /\ call[1].entry = "extract") =>
        LET question == call[1].question
            Eligible(p) == Len(p) >= 50
            Selected(p) == \/ KeywordsIn(p, question) >= 2
                           \/ /\ Cardinality(QuestionKeywords(question)) <= 2
                              /\ KeywordsIn(p, question) >= 1
            eligible == SelectSeq(StrippedParagraphs(call[1].text), Eligible)
            selected == SelectSeq(eligible, Selected)
        IN  result[1] = IF selected # <<>> THEN FirstN(selected, 5) ELSE FirstN(eligible, 3)

(***************************************************************************)
(* Claims about the general search (SpecSearch)                            *)
(***************************************************************************)
\* an unscoped search that the index answered has just returned
GeneralSearchReturned ==
    /\ ret.op = "search"
    /\ ret.args[3] = <<>>
    /\ vectorstore # Nothing
    /\ vectorstore[1].answers

\* the score the index gave the chunk a source was made from
IndexScoreOf(source) ==
    LET results == vectorstore[1].results
    IN  results[CHOOSE i \in DOMAIN results : results[i].page_content = source.content[1]].score

\* C37: every relevance the general search returns lies in [0, 1] (0..100
\* hundredths), and of two accepted chunks the one the index scores as more
\* similar never receives the lower relevance
C37_RelevanceFollowsSimilarity ==
    GeneralSearchReturned =>
        LET sources == ret.value.sources
        IN  /\ \A i \in DOMAIN sources : sources[i].relevance \in 0..100
            /\ \A i, j \in DOMAIN sources :
                  IndexScoreOf(sources[i]) >= IndexScoreOf(sources[j]) =>
                      sources[i].relevance >= sources[j].relevance


\* the chunks of the index's answer whose similarity meets the category's
\* threshold, in the order the index returned them
AcceptedChunks ==
    LET config == query_configs(ret.args[2])
        MeetsThreshold(chunk) == chunk.score <= 100 /\ chunk.score >= config.threshold
    IN  SelectSeq(FirstN(vectorstore[1].results, config.k), MeetsThreshold)

\* where in the index's answer the chunk of a source stands
IndexPositionOf(source) ==
    LET results == vectorstore[1].results
    IN  CHOOSE i \in DOMAIN results : results[i].page_content = source.content[1]

\* C38: an unscoped indexed search returns at most 5 sources, in the index's
\* return order, each made from a chunk whose similarity met the category
\* threshold; its context is made of the first 6 such chunks at most, holds
\* nothing that begins past the 3000-character cap, and ends with the
\* ellipsis marker exactly when it was cut
C38_SourcesAndContextCapped ==
    GeneralSearchReturned =>
        LET sources == ret.value.sources
            context == ret.value.context
            first6 == FirstN(AcceptedChunks, 6)
            joined == SumSeq([i \in 1..Len(first6) |-> first6[i].length]) +
                      (IF first6 = <<>> THEN 0 ELSE Len(first6) - 1)
            cut == joined > 3000
            body == IF cut THEN SubSeq(context, 1, Len(context) - 1) ELSE context
        IN  /\ Len(sources) <= 5
            /\ \A i \in DOMAIN sources :
                  \E a \in DOMAIN AcceptedChunks :
                      AcceptedChunks[a].page_content = sources[i].content[1]
            /\ \A i, j \in DOMAIN sources :
                  i < j => IndexPositionOf(sources[i]) < IndexPositionOf(sources[j])
            /\ cut => (Len(context) > 0 /\ context[Len(context)] = "...")
            /\ Len(body) <= Len(first6)
            /\ \A i \in DOMAIN body :
                  /\ body[i] = first6[i].page_content
                  /\ SumSeq([j \in 1..(i - 1) |-> first6[j].length + 1]) < 3000
            /\ ~cut => Len(body) = Len(first6)

\* the index returned seven chunks that all met the threshold: five sources
\* came back and the context was cut
C38_Witness ==
    /\ GeneralSearchReturned
    /\ Len(AcceptedChunks) > 6
    /\ Len(ret.value.sources) = 5
    /\ ret.value.context[Len(ret.value.context)] = "..."


(***************************************************************************)
(* Claims about the Query Classifier on every question (SpecClassify)      *)
(***************************************************************************)
\* the question contains one of the level's intent phrases
HasIntentPhrase(question, level) ==
    \E i \in 1..Len(complexity_indicators(level)) :
        Contains(Lower(question), complexity_indicators(level)[i])

\* C39: the complexity tier is complex when the question contains a
\* complex-intent phrase, whatever its word count and also when a
\* simple-intent phrase is present; otherwise simple when it contains a
\* simple-intent phrase, whatever its word count; otherwise simple up to 5
\* words, medium from 6 to 15, complex above 15
C39_ComplexityReference ==
    (pc = "returned" /\ call[1].entry = "classify") =>
        LET question == call[1].question
        IN  result[1].complexity =
                IF HasIntentPhrase(question, "complex") THEN "complex"
                ELSE IF HasIntentPhrase(question, "simple") THEN "simple"
                ELSE IF WordCount(question) <= 5 THEN "simple"
                ELSE IF WordCount(question) <= 15 THEN "medium"
                ELSE "complex"


\* the categories in their fixed order, by position, and the score of each for
\* the classified question: 2 per whole-word keyword match, 1 per
\* substring-only match (halves)
ScoreAt(i) == CategoryScore(Lower(call[1].question), CategoryOrder[i])

\* C40: classify returns the category with the highest score, the first in
\* the fixed category order when several share it, and returns general if
\* and only if no keyword of any category matches the question
C40_HighestScoreFirstOnTie ==
    (pc = "returned" /\ call[1].entry = "classify") =>
        LET category == result[1].category
            positions == 1..Len(CategoryOrder)
        IN  /\ category = "general" <=> \A i \in positions : ScoreAt(i) = 0
            /\ category # "general" =>
                  \E i \in positions :
                      /\ CategoryOrder[i] = category
                      /\ \A j \in positions : ScoreAt(j) <= ScoreAt(i)
                      /\ \A j \in positions : j < i => ScoreAt(j) < ScoreAt(i)

\* a question was classified for which two categories share the highest
\* score, and the earlier of the two was returned
C40_Witness ==
    /\ pc = "returned"
    /\ call[1].entry = "classify"
    /\ \E i, j \in 1..Len(CategoryOrder) :
          /\ i < j
          /\ ScoreAt(i) = ScoreAt(j)
          /\ ScoreAt(i) > 0
          /\ \A k \in 1..Len(CategoryOrder) : ScoreAt(k) <= ScoreAt(i)
          /\ result[1].category = CategoryOrder[i]
====
